---- MODULE Spec2Model ----
(***************************************************************************)
(* The @key transformer (graphql-key-transformer/src/KeyTransformer.ts)    *)
(* as a state machine.  One behaviour is one compilation of one object     *)
(* type: the type definition (fields and @key directives) is fixed in the  *)
(* initial state, the Context holds what @model generated for the type,    *)
(* and each step applies the next @key directive in declaration order.     *)
(***************************************************************************)
EXTENDS Integers, Sequences, FiniteSets, TLC

\* Longest fields list of a @key directive.
MaxFields == 3
\* Largest number of @key directives on the type.
MaxDirectives == 2

TypeName == "Test"
\* A directive argument that was not given (undefined in the source).
NoName == ""
NoQueryField == ""
\* A value the message of an error does not interpolate.
NotInMessage == "-"
NoError == [kind |-> "none", type |-> NotInMessage, key |-> NotInMessage, field |-> NotInMessage]

RECURSIVE Join(_, _)
Join(strs, sep) ==
    IF Len(strs) = 0 THEN ""
    ELSE IF Len(strs) = 1 THEN strs[1]
    ELSE strs[1] \o sep \o Join(Tail(strs), sep)

Range(s) == { s[i] : i \in 1..Len(s) }

Prefixes(s) == { SubSeq(s, 1, n) : n \in 1..Len(s) }

(***************************************************************************)
(* The schema: types, fields and directives as the parser hands them over. *)
(***************************************************************************)
NamedType(base) == [base |-> base, nonNull |-> FALSE]
NonNullType(base) == [base |-> base, nonNull |-> TRUE]

makeNamedType(base) == NamedType(base)
makeNonNullType(type) == [type EXCEPT !.nonNull = TRUE]
getBaseType(type) == type.base
isNonNullType(type) == type.nonNull
makeInputValueDefinition(name, type) == [name |-> name, type |-> type]

\* Kinds of the named types of the schema other than the built-in scalars.
EnumTypeNames == {"Status"}

\* The declarations of the field email that the compilations range over;
\* the empty sequence is a type that does not declare the field.
EmailDeclarations ==
    { <<>> } \cup
    { << [name |-> "email", type |-> t] >> :
        t \in { NonNullType("String"), NamedType("String"),
                NonNullType("Status"), NonNullType("Other") } }

FieldsWith(emailDeclaration) ==
    << [name |-> "id", type |-> NonNullType("ID")] >> \o emailDeclaration \o
    << [name |-> "kind", type |-> NonNullType("Int")],
       [name |-> "date", type |-> NonNullType("AWSDateTime")] >>

FieldDeclarations == { FieldsWith(e) : e \in EmailDeclarations }

\* The fields lists of the directives are the prefixes of these orders.
FieldOrders ==
    { <<"email", "kind", "date", "id">>,
      <<"id", "id">> }

KeyFieldLists ==
    { l \in UNION { Prefixes(o) : o \in FieldOrders } : Len(l) <= MaxFields }

KeyNames == {NoName, "byA", "byB"}
QueryFieldNames == {"queryA"}

KeyArguments ==
    [name : KeyNames, fields : KeyFieldLists, queryField : {NoQueryField} \cup QueryFieldNames]

DirectiveLists ==
    UNION { [1..n -> KeyArguments] : n \in 0..MaxDirectives }

getDirectiveArguments(directive) == directive

HasField(def, fieldName) == \E i \in 1..Len(def.fields) : def.fields[i].name = fieldName

\* definition.fields.find(f => f.name.value === fieldName) / fieldMap.get(fieldName)
FieldNamed(def, fieldName) ==
    def.fields[CHOOSE i \in 1..Len(def.fields) : def.fields[i].name = fieldName]

(***************************************************************************)
(* DynamoDB attribute types.                                               *)
(***************************************************************************)
NotAKeyType == "NONE"

attributeTypeFromScalar(type) ==
    CASE getBaseType(type) \in {"String", "ID", "AWSDateTime"} -> "S"
      [] getBaseType(type) \in {"Int", "Float"} -> "N"
      [] OTHER -> NotAKeyType

attributeTypeFromType(type) ==
    IF getBaseType(type) \in EnumTypeNames THEN "S" ELSE attributeTypeFromScalar(type)

condenseRangeKey(fields) == Join(fields, "#")

\* keySchema with the range key left uncondensed: the second field alone.
keySchemaUncondensed(args) ==
    IF Len(args.fields) > 1
    THEN << [AttributeName |-> args.fields[1], KeyType |-> "HASH"],
            [AttributeName |-> args.fields[2], KeyType |-> "RANGE"] >>
    ELSE << [AttributeName |-> args.fields[1], KeyType |-> "HASH"] >>

keySchema(args) ==
    IF Len(args.fields) > 1
    THEN << [AttributeName |-> args.fields[1], KeyType |-> "HASH"],
            [AttributeName |-> condenseRangeKey(Tail(args.fields)), KeyType |-> "RANGE"] >>
    ELSE << [AttributeName |-> args.fields[1], KeyType |-> "HASH"] >>

\* attributeDefinitions with the sort key of a two-field key typed as a composite one.
attributeDefinitionsSortKeyAsString(args, def) ==
    IF Len(args.fields) >= 2
    THEN << [AttributeName |-> args.fields[1],
             AttributeType |-> attributeTypeFromType(FieldNamed(def, args.fields[1]).type)],
            [AttributeName |-> condenseRangeKey(Tail(args.fields)), AttributeType |-> "S"] >>
    ELSE << [AttributeName |-> args.fields[1],
             AttributeType |-> attributeTypeFromType(FieldNamed(def, args.fields[1]).type)] >>

attributeDefinitions(args, def) ==
    IF Len(args.fields) > 2
    THEN << [AttributeName |-> args.fields[1],
             AttributeType |-> attributeTypeFromType(FieldNamed(def, args.fields[1]).type)],
            [AttributeName |-> condenseRangeKey(Tail(args.fields)), AttributeType |-> "S"] >>
    ELSE IF Len(args.fields) = 2
    THEN << [AttributeName |-> args.fields[1],
             AttributeType |-> attributeTypeFromType(FieldNamed(def, args.fields[1]).type)],
            [AttributeName |-> args.fields[2],
             AttributeType |-> attributeTypeFromType(FieldNamed(def, args.fields[2]).type)] >>
    ELSE << [AttributeName |-> args.fields[1],
             AttributeType |-> attributeTypeFromType(FieldNamed(def, args.fields[1]).type)] >>

\* append that puts the item in front of the list.
appendInFront(maybeList, item) == << item >> \o maybeList

append(maybeList, item) == Append(maybeList, item)

isPrimaryKey(directive) == getDirectiveArguments(directive).name = NoName

\* The first unnamed @key of the type, wherever it is declared; 0 if none.
getPrimaryKey(def) ==
    IF \E i \in 1..Len(def.directives) : def.directives[i].name = NoName
    THEN CHOOSE i \in 1..Len(def.directives) :
            /\ def.directives[i].name = NoName
            /\ \A j \in 1..(i - 1) : def.directives[j].name # NoName
    ELSE 0

(***************************************************************************)
(* validate                                                                *)
(***************************************************************************)
InvalidDirectiveError(kind, type, key, field) ==
    [kind |-> kind, type |-> type, key |-> key, field |-> field]

\* An exception of the runtime, not one the transformer raises itself.
TypeError(message) ==
    [kind |-> "TypeError: " \o message, type |-> NotInMessage, key |-> NotInMessage, field |-> NotInMessage]

\* The name read from a position the fields list does not have.
Undefined == "undefined"

\* The error of one field name of the fields list, NoError if it is a valid key field.
FieldError(def, args, fieldName) ==
    IF ~HasField(def, fieldName)
    THEN InvalidDirectiveError("non-existant field", def.name, args.name, fieldName)
    ELSE LET existingField == FieldNamed(def, fieldName)
             ddbKeyType == attributeTypeFromType(existingField.type)
         IN  IF ~isNonNullType(existingField.type)
             THEN InvalidDirectiveError("must reference non-null fields", def.name, NotInMessage, NotInMessage)
             ELSE IF ddbKeyType # "S" /\ ddbKeyType # "N" /\ ddbKeyType # "B"
             THEN InvalidDirectiveError("cannot reference non-scalar field", def.name, NotInMessage, fieldName)
             ELSE NoError

FieldsError(def, args) ==
    IF \E k \in 1..Len(args.fields) : FieldError(def, args, args.fields[k]) # NoError
    THEN LET k == CHOOSE k \in 1..Len(args.fields) :
                    /\ FieldError(def, args, args.fields[k]) # NoError
                    /\ \A j \in 1..(k - 1) : FieldError(def, args, args.fields[j]) = NoError
         IN  FieldError(def, args, args.fields[k])
    ELSE NoError

\* validate looking for a directive of the same name among the earlier ones only.
validateAgainstEarlierDirectives(def, i) ==
    LET directiveArgs == getDirectiveArguments(def.directives[i])
        others == { j \in 1..Len(def.directives) : j < i }
    IN  IF directiveArgs.name = NoName
        THEN IF \E j \in others : def.directives[j].name = NoName
             THEN InvalidDirectiveError("only one primary @key", def.name, NotInMessage, NotInMessage)
             ELSE IF directiveArgs.queryField # NoQueryField
             THEN InvalidDirectiveError("queryField on the primary @key", def.name, NotInMessage, NotInMessage)
             ELSE FieldsError(def, directiveArgs)
        ELSE IF \E j \in others : def.directives[j].name = directiveArgs.name
             THEN InvalidDirectiveError("only one @key with the name", def.name, directiveArgs.name, NotInMessage)
             ELSE FieldsError(def, directiveArgs)

\* The error validate throws for the i-th directive of the type, NoError if it returns.
validate(def, i) ==
    LET directiveArgs == getDirectiveArguments(def.directives[i])
        others == { j \in 1..Len(def.directives) : j # i }
    IN  IF directiveArgs.name = NoName
        THEN IF \E j \in others : def.directives[j].name = NoName
             THEN InvalidDirectiveError("only one primary @key", def.name, NotInMessage, NotInMessage)
             ELSE IF directiveArgs.queryField # NoQueryField
             THEN InvalidDirectiveError("queryField on the primary @key", def.name, NotInMessage, NotInMessage)
             ELSE FieldsError(def, directiveArgs)
        ELSE IF \E j \in others : def.directives[j].name = directiveArgs.name
             THEN InvalidDirectiveError("only one @key with the name", def.name, directiveArgs.name, NotInMessage)
             ELSE FieldsError(def, directiveArgs)

(***************************************************************************)
(* updateIndexStructures                                                   *)
(***************************************************************************)
AttributeNames(attrDefs) == { attrDefs[i].AttributeName : i \in 1..Len(attrDefs) }

\* attrDefs pushed one by one unless the name is in the set taken before the loop.
PushNewAttributes(existing, existingAttrDefSet, attrDefs) ==
    existing \o SelectSeq(attrDefs, LAMBDA attr : attr.AttributeName \notin existingAttrDefSet)

replacePrimaryKey(tableResource, def, directive) ==
    LET args == getDirectiveArguments(directive)
        ks == keySchema(args)
        attrDefs == attributeDefinitions(args, def)
        oldKeyNames == { tableResource.KeySchema[i].AttributeName : i \in 1..Len(tableResource.KeySchema) }
        remaining == SelectSeq(tableResource.AttributeDefinitions,
                               LAMBDA ad : ad.AttributeName \notin oldKeyNames)
        existingAttrDefSet == AttributeNames(tableResource.AttributeDefinitions) \ oldKeyNames
    IN  [tableResource EXCEPT
            !.KeySchema = ks,
            !.AttributeDefinitions = PushNewAttributes(remaining, existingAttrDefSet, attrDefs)]

\* primaryPartitionKeyName without the look at the primary @key of the type.
primaryPartitionKeyNameAlwaysId(def) == "id"

primaryPartitionKeyName(def) ==
    IF getPrimaryKey(def) # 0
    THEN LET fields == getDirectiveArguments(def.directives[getPrimaryKey(def)]).fields
         IN  IF Len(fields) > 0 THEN fields[1] ELSE Undefined
    ELSE "id"

\* appendSecondaryIndex comparing with the key the table has at the moment.
appendSecondaryIndexAgainstTable(tableResource, def, directive) ==
    LET args == getDirectiveArguments(directive)
        ks == keySchema(args)
        attrDefs == attributeDefinitions(args, def)
        baseIndexProperties == [IndexName |-> args.name, KeySchema |-> ks, ProjectionType |-> "ALL"]
        indexed ==
            IF tableResource.KeySchema[1].AttributeName = ks[1].AttributeName
            THEN [tableResource EXCEPT
                    !.LocalSecondaryIndexes = append(@, baseIndexProperties)]
            ELSE [tableResource EXCEPT
                    !.GlobalSecondaryIndexes = append(@, baseIndexProperties)]
    IN  [indexed EXCEPT
            !.AttributeDefinitions =
                PushNewAttributes(@, AttributeNames(tableResource.AttributeDefinitions), attrDefs)]

appendSecondaryIndex(tableResource, def, directive) ==
    LET args == getDirectiveArguments(directive)
        ks == keySchema(args)
        attrDefs == attributeDefinitions(args, def)
        baseIndexProperties == [IndexName |-> args.name, KeySchema |-> ks, ProjectionType |-> "ALL"]
        indexed ==
            IF primaryPartitionKeyName(def) = ks[1].AttributeName
            THEN [tableResource EXCEPT
                    !.LocalSecondaryIndexes = append(@, baseIndexProperties)]
            ELSE [tableResource EXCEPT
                    !.GlobalSecondaryIndexes = append(@, baseIndexProperties)]
    IN  [indexed EXCEPT
            !.AttributeDefinitions =
                PushNewAttributes(@, AttributeNames(tableResource.AttributeDefinitions), attrDefs)]

\* What the calls made before the table is looked up throw: attributeDefinitions
\* reads .type of fieldMap.get(name), which is undefined for a name the type
\* does not declare and for fields[0] of an empty list.
attributeDefinitionsError(args, def) ==
    LET looked ==
            IF Len(args.fields) > 2 THEN << args.fields[1] >>
            ELSE IF Len(args.fields) = 2 THEN << args.fields[1], args.fields[2] >>
            ELSE IF Len(args.fields) = 1 THEN << args.fields[1] >>
            ELSE << Undefined >>
    IN  IF \E k \in 1..Len(looked) : ~HasField(def, looked[k])
        THEN TypeError("Cannot read property 'type' of undefined")
        ELSE NoError

\* updateIndexStructures with no regard to whether the table resource exists.
updateIndexStructuresErrorIgnoringTable(tableResource, def, directive) ==
    attributeDefinitionsError(getDirectiveArguments(directive), def)

\* The error replacePrimaryKey and appendSecondaryIndex throw before they
\* touch the table, NoError if they go on to change it.
updateIndexStructuresError(tableResource, def, directive) ==
    IF attributeDefinitionsError(getDirectiveArguments(directive), def) # NoError
    THEN attributeDefinitionsError(getDirectiveArguments(directive), def)
    ELSE IF ~tableResource.exists
    THEN InvalidDirectiveError("may only be added to object definitions annotated with @model",
                               NotInMessage, NotInMessage, NotInMessage)
    ELSE NoError

updateIndexStructures(tableResource, def, directive) ==
    IF isPrimaryKey(directive)
    THEN replacePrimaryKey(tableResource, def, directive)
    ELSE appendSecondaryIndex(tableResource, def, directive)

(***************************************************************************)
(* updateSchema: the Query type and the input types.                       *)
(***************************************************************************)
QueryTypeName == "Query"
ModelQueryOperations == {"Get", "List"}
ModelMutationOperations == {"Create", "Update", "Delete"}
ModelOperations == ModelQueryOperations \cup ModelMutationOperations

\* ResolverResourceIDs and ModelResourceIDs of graphql-transformer-common.
DynamoDBResolverResourceID(operation, typeName) == operation \o typeName \o "Resolver"
ResolverResourceID(typeName, fieldName) == typeName \o fieldName \o "Resolver"
ModelInputObjectName(operation, typeName) == operation \o typeName \o "Input"
ModelKeyConditionInputTypeName(base) == "Model" \o base \o "KeyConditionInput"

ResolverIDs ==
    { DynamoDBResolverResourceID(op, TypeName) : op \in ModelOperations } \cup
    { ResolverResourceID(QueryTypeName, q) : q \in QueryFieldNames }
InputNames == { ModelInputObjectName(op, TypeName) : op \in ModelMutationOperations }

NoResource == [exists |-> FALSE, FieldName |-> "", RequestMappingTemplate |-> <<>>]
NoType == [exists |-> FALSE, fields |-> <<>>]

MapSeq(s, Op(_)) == [i \in 1..Len(s) |-> Op(s[i])]

\* query.fields.map(field => field.name.value === newField.name.value ? newField : field)
ReplaceField(fields, newField) ==
    [i \in 1..Len(fields) |-> IF fields[i].name = newField.name THEN newField ELSE fields[i]]

FindField(fields, fieldName) ==
    fields[CHOOSE i \in 1..Len(fields) : fields[i].name = fieldName]

\* updateGetField putting the key arguments after the arguments the field had.
updateGetFieldKeepingArguments(query, resources, def, directive) ==
    LET getResolverResource == resources[DynamoDBResolverResourceID("Get", def.name)]
    IN  IF getResolverResource.exists /\ isPrimaryKey(directive)
        THEN LET getField == FindField(query, getResolverResource.FieldName)
                 args == getDirectiveArguments(directive)
                 getArguments ==
                    MapSeq(args.fields, LAMBDA keyAttributeName :
                        makeInputValueDefinition(keyAttributeName,
                            makeNonNullType(makeNamedType(getBaseType(FieldNamed(def, keyAttributeName).type)))))
             IN  ReplaceField(query, [getField EXCEPT !.arguments = @ \o getArguments])
        ELSE query

updateGetField(query, resources, def, directive) ==
    LET getResolverResource == resources[DynamoDBResolverResourceID("Get", def.name)]
    IN  IF getResolverResource.exists /\ isPrimaryKey(directive)
        THEN LET getField == FindField(query, getResolverResource.FieldName)
                 args == getDirectiveArguments(directive)
                 getArguments ==
                    MapSeq(args.fields, LAMBDA keyAttributeName :
                        makeInputValueDefinition(keyAttributeName,
                            makeNonNullType(makeNamedType(getBaseType(FieldNamed(def, keyAttributeName).type)))))
             IN  ReplaceField(query, [getField EXCEPT !.arguments = getArguments])
        ELSE query

\* The argument of a list or index query for the i-th field of the key.
KeyArgument(def, args, i, required) ==
    LET keyAttributeName == args.fields[i]
        keyField == FieldNamed(def, keyAttributeName)
    IN  IF i = Len(args.fields) /\ Len(args.fields) # 1
        THEN makeInputValueDefinition(keyAttributeName,
                makeNamedType(ModelKeyConditionInputTypeName(getBaseType(keyField.type))))
        ELSE makeInputValueDefinition(keyAttributeName,
                IF required
                THEN makeNonNullType(makeNamedType(getBaseType(keyField.type)))
                ELSE makeNamedType(getBaseType(keyField.type)))

\* updateListField making the key arguments before the last required.
updateListFieldRequiringKeyArguments(query, resources, def, directive) ==
    LET listResolverResource == resources[DynamoDBResolverResourceID("List", def.name)]
    IN  IF listResolverResource.exists /\ isPrimaryKey(directive)
        THEN LET listField == FindField(query, listResolverResource.FieldName)
                 args == getDirectiveArguments(directive)
                 keyArguments == [i \in 1..Len(args.fields) |-> KeyArgument(def, args, i, TRUE)]
             IN  ReplaceField(query, [listField EXCEPT !.arguments = keyArguments \o @])
        ELSE query

updateListField(query, resources, def, directive) ==
    LET listResolverResource == resources[DynamoDBResolverResourceID("List", def.name)]
    IN  IF listResolverResource.exists /\ isPrimaryKey(directive)
        THEN LET listField == FindField(query, listResolverResource.FieldName)
                 args == getDirectiveArguments(directive)
                 keyArguments == [i \in 1..Len(args.fields) |-> KeyArgument(def, args, i, FALSE)]
             IN  ReplaceField(query, [listField EXCEPT !.arguments = keyArguments \o @])
        ELSE query

\* The arguments every connection field takes after its own.
ConnectionArguments(typeName) ==
    << makeInputValueDefinition("filter", makeNamedType("Model" \o typeName \o "FilterInput")),
       makeInputValueDefinition("limit", makeNamedType("Int")),
       makeInputValueDefinition("nextToken", makeNamedType("String")) >>

makeConnectionField(fieldName, returnTypeName, args) ==
    [name |-> fieldName, arguments |-> args \o ConnectionArguments(returnTypeName)]

ensureQueryField(query, def, directive) ==
    LET args == getDirectiveArguments(directive)
    IN  IF args.queryField # NoQueryField /\ ~isPrimaryKey(directive)
        THEN LET queryArgs == [i \in 1..Len(args.fields) |-> KeyArgument(def, args, i, TRUE)]
             IN  Append(query, makeConnectionField(args.queryField, def.name, queryArgs))
        ELSE query

updateQueryFields(query, resources, def, directive) ==
    ensureQueryField(
        updateListField(
            updateGetField(query, resources, def, directive),
            resources, def, directive),
        def, directive)

primaryIdFields(def, keyFields) ==
    MapSeq(keyFields, LAMBDA keyFieldName :
        makeInputValueDefinition(keyFieldName,
            makeNonNullType(makeNamedType(getBaseType(FieldNamed(def, keyFieldName).type)))))

RECURSIVE CreateInputFields(_, _, _)
CreateInputFields(def, fields, keyFields) ==
    IF fields = <<>> THEN <<>>
    ELSE LET f == Head(fields)
             kept ==
                IF f.name \in Range(keyFields)
                THEN << makeInputValueDefinition(f.name, makeNonNullType(makeNamedType(getBaseType(f.type)))) >>
                ELSE IF HasField(def, f.name) /\ isNonNullType(FieldNamed(def, f.name).type)
                THEN << makeInputValueDefinition(f.name, makeNonNullType(makeNamedType(getBaseType(f.type)))) >>
                ELSE IF HasField(def, f.name)
                THEN << makeInputValueDefinition(f.name, makeNamedType(getBaseType(f.type))) >>
                ELSE <<>>
         IN  kept \o CreateInputFields(def, Tail(fields), keyFields)

replaceCreateInput(def, input, keyFields) ==
    [input EXCEPT !.fields = CreateInputFields(def, input.fields, keyFields)]

\* replaceUpdateInput leaving the fields of the input as @model made them.
replaceUpdateInputKeepingTypes(def, input, keyFields) == input

replaceUpdateInput(def, input, keyFields) ==
    [input EXCEPT !.fields =
        MapSeq(@, LAMBDA f :
            IF f.name \in Range(keyFields)
            THEN makeInputValueDefinition(f.name, makeNonNullType(makeNamedType(getBaseType(f.type))))
            ELSE makeInputValueDefinition(f.name, makeNamedType(getBaseType(f.type))))]

replaceDeleteInput(def, input, keyFields) ==
    [input EXCEPT !.fields = primaryIdFields(def, keyFields)]

updateInputObjects(inputTypes, def, directive) ==
    IF isPrimaryKey(directive)
    THEN LET keyFields == getDirectiveArguments(directive).fields
             createName == ModelInputObjectName("Create", def.name)
             updateName == ModelInputObjectName("Update", def.name)
             deleteName == ModelInputObjectName("Delete", def.name)
         IN  [inputTypes EXCEPT
                ![createName] = IF @.exists THEN replaceCreateInput(def, @, keyFields) ELSE @,
                ![updateName] = IF @.exists THEN replaceUpdateInput(def, @, keyFields) ELSE @,
                ![deleteName] = IF @.exists THEN replaceDeleteInput(def, @, keyFields) ELSE @]
    ELSE inputTypes

(***************************************************************************)
(* updateResolvers and addKeyConditionInputs.                              *)
(***************************************************************************)
defaultPageLimit == 10

ArgsPrefix(isMutation) == IF isMutation THEN "ctx.args.input" ELSE "ctx.args"

ToDynamoDB(argsPrefix, keyField) ==
    "$util.dynamodb.toDynamoDB($" \o argsPrefix \o "." \o keyField \o ")"

\* condenseRangeKey(rangeKeyFields.map(keyField => `${argsPrefix.keyField}`))
condensedSortKeyValue(argsPrefix, rangeKeyFields) ==
    condenseRangeKey(MapSeq(rangeKeyFields, LAMBDA keyField :
        "${" \o argsPrefix \o "." \o keyField \o "}"))

\* An object literal: a later entry of the same key overwrites the value of the earlier one.
obj(entries) ==
    SelectSeq(
        [i \in 1..Len(entries) |->
            [key |-> entries[i].key,
             value |-> entries[CHOOSE j \in 1..Len(entries) :
                                  /\ entries[j].key = entries[i].key
                                  /\ \A k \in (j + 1)..Len(entries) : entries[k].key # entries[i].key].value,
             first |-> \A k \in 1..(i - 1) : entries[k].key # entries[i].key]],
        LAMBDA e : e.first)

modelObjectKey(args, isMutation) ==
    LET argsPrefix == ArgsPrefix(isMutation)
    IN  IF Len(args.fields) > 2
        THEN obj(<< [key |-> args.fields[1], value |-> ToDynamoDB(argsPrefix, args.fields[1])],
                    [key |-> condenseRangeKey(Tail(args.fields)),
                     value |-> "$util.dynamodb.toDynamoDB(\"" \o
                               condensedSortKeyValue(argsPrefix, Tail(args.fields)) \o "\")"] >>)
        ELSE IF Len(args.fields) = 2
        THEN obj(<< [key |-> args.fields[1], value |-> ToDynamoDB(argsPrefix, args.fields[1])],
                    [key |-> args.fields[2], value |-> ToDynamoDB(argsPrefix, args.fields[2])] >>)
        ELSE obj(<< [key |-> args.fields[1], value |-> ToDynamoDB(argsPrefix, args.fields[1])] >>)

\* The throw modelObjectKey ends with when none of its branches returned.
modelObjectKeyError(args) ==
    IF Len(args.fields) = 0
    THEN InvalidDirectiveError("@key directives must include at least one field",
                               NotInMessage, NotInMessage, NotInMessage)
    ELSE NoError

ensureCompositeKey(args) ==
    IF Len(args.fields) > 2
    THEN "$util.qr($ctx.args.input.put(\"" \o condenseRangeKey(Tail(args.fields)) \o "\",\"" \o
         condensedSortKeyValue("ctx.args.input", Tail(args.fields)) \o "\"))"
    ELSE ""

\* setKeySnippet that builds the key of a mutation from ctx.args too.
setKeySnippetFromArgs(directive, isMutation) ==
    LET directiveArgs == getDirectiveArguments(directive)
    IN  [block |-> "Set the primary @key",
         modelObjectKey |-> modelObjectKey(directiveArgs, FALSE),
         cmds |-> IF isMutation THEN << ensureCompositeKey(directiveArgs) >> ELSE <<>>,
         keys |-> <<>>, keyTypes |-> <<>>, index |-> "", limit |-> 0]

setKeySnippet(directive, isMutation) ==
    LET directiveArgs == getDirectiveArguments(directive)
    IN  [block |-> "Set the primary @key",
         modelObjectKey |-> modelObjectKey(directiveArgs, isMutation),
         cmds |-> IF isMutation THEN << ensureCompositeKey(directiveArgs) >> ELSE <<>>,
         keys |-> <<>>, keyTypes |-> <<>>, index |-> "", limit |-> 0]

setQuerySnippet(def, directive) ==
    LET keys == getDirectiveArguments(directive).fields
    IN  [block |-> "Set query expression for @key",
         modelObjectKey |-> <<>>, cmds |-> <<>>,
         keys |-> keys,
         keyTypes |-> MapSeq(keys, LAMBDA k : attributeTypeFromType(FieldNamed(def, k).type)),
         index |-> "", limit |-> 0]

\* What a template held before the @key transformer touched it.
TemplateText(text) ==
    [block |-> text, modelObjectKey |-> <<>>, cmds |-> <<>>,
     keys |-> <<>>, keyTypes |-> <<>>, index |-> "", limit |-> 0]

QueryRequest(index) ==
    [block |-> "QueryRequest", modelObjectKey |-> <<>>, cmds |-> <<>>,
     keys |-> <<>>, keyTypes |-> <<>>, index |-> index, limit |-> defaultPageLimit]

\* makeQueryResolver with a request that names no index: a query of the table.
makeQueryResolverOnTable(def, directive) ==
    LET directiveArgs == getDirectiveArguments(directive)
    IN  [exists |-> TRUE,
         FieldName |-> directiveArgs.queryField,
         RequestMappingTemplate |-> << setQuerySnippet(def, directive), QueryRequest("") >>]

makeQueryResolver(def, directive) ==
    LET directiveArgs == getDirectiveArguments(directive)
    IN  [exists |-> TRUE,
         FieldName |-> directiveArgs.queryField,
         RequestMappingTemplate |-> << setQuerySnippet(def, directive), QueryRequest(directiveArgs.name) >>]

Prepend(resource, snippet) ==
    IF resource.exists
    THEN [resource EXCEPT !.RequestMappingTemplate = << snippet >> \o @]
    ELSE resource

updateResolvers(resources, def, directive) ==
    LET directiveArgs == getDirectiveArguments(directive)
    IN  IF isPrimaryKey(directive)
        THEN [resources EXCEPT
                ![DynamoDBResolverResourceID("Get", def.name)] = Prepend(@, setKeySnippet(directive, FALSE)),
                ![DynamoDBResolverResourceID("List", def.name)] = Prepend(@, setQuerySnippet(def, directive)),
                ![DynamoDBResolverResourceID("Create", def.name)] = Prepend(@, setKeySnippet(directive, TRUE)),
                ![DynamoDBResolverResourceID("Update", def.name)] = Prepend(@, setKeySnippet(directive, TRUE)),
                ![DynamoDBResolverResourceID("Delete", def.name)] = Prepend(@, setKeySnippet(directive, TRUE))]
        ELSE IF directiveArgs.name # NoName /\ directiveArgs.queryField # NoQueryField
        THEN [resources EXCEPT
                ![ResolverResourceID(QueryTypeName, directiveArgs.queryField)] = makeQueryResolver(def, directive)]
        ELSE resources

\* The resolvers of the primary @key whose template is built by setKeySnippet.
KeySnippetOperations == {"Get", "Create", "Update", "Delete"}

\* The error updateResolvers throws out of setKeySnippet, NoError if it returns.
updateResolversError(resources, def, directive) ==
    IF /\ isPrimaryKey(directive)
       /\ \E op \in KeySnippetOperations : resources[DynamoDBResolverResourceID(op, def.name)].exists
    THEN modelObjectKeyError(getDirectiveArguments(directive))
    ELSE NoError

\* The resolvers as updateResolvers leaves them when setKeySnippet throws: the
\* get resolver is the first it builds, the list resolver is rewritten before the others.
updateResolversUntilError(resources, def, directive) ==
    IF resources[DynamoDBResolverResourceID("Get", def.name)].exists
    THEN resources
    ELSE [resources EXCEPT
            ![DynamoDBResolverResourceID("List", def.name)] = Prepend(@, setQuerySnippet(def, directive))]

\* ctx.addToStackMapping of updateResolvers.
updateStackMapping(mapping, def, directive) ==
    LET directiveArgs == getDirectiveArguments(directive)
    IN  IF ~isPrimaryKey(directive) /\ directiveArgs.name # NoName /\ directiveArgs.queryField # NoQueryField
        THEN mapping \cup { [stack |-> def.name,
                            pattern |-> "^" \o ResolverResourceID(QueryTypeName, directiveArgs.queryField) \o "$"] }
        ELSE mapping

makeScalarKeyConditionForType(type) ==
    [name |-> ModelKeyConditionInputTypeName(getBaseType(type)), scalar |-> getBaseType(type)]

\* addKeyConditionInputs that registers the condition input of the final
\* field of a single-field key as well.
addKeyConditionInputsForEveryKey(conditionTypes, def, directive) ==
    LET args == getDirectiveArguments(directive)
        finalSortKeyField == FieldNamed(def, args.fields[Len(args.fields)])
        sortKeyConditionInput ==
            IF Len(args.fields) > 2
            THEN makeScalarKeyConditionForType(makeNamedType("String"))
            ELSE makeScalarKeyConditionForType(finalSortKeyField.type)
    IN  IF \E t \in conditionTypes : t.name = sortKeyConditionInput.name
        THEN conditionTypes
        ELSE conditionTypes \cup {sortKeyConditionInput}

addKeyConditionInputs(conditionTypes, def, directive) ==
    LET args == getDirectiveArguments(directive)
    IN  IF Len(args.fields) > 1
        THEN LET finalSortKeyField == FieldNamed(def, args.fields[Len(args.fields)])
                 sortKeyConditionInput ==
                    IF Len(args.fields) > 2
                    THEN makeScalarKeyConditionForType(makeNamedType("String"))
                    ELSE makeScalarKeyConditionForType(finalSortKeyField.type)
             IN  IF \E t \in conditionTypes : t.name = sortKeyConditionInput.name
                 THEN conditionTypes
                 ELSE conditionTypes \cup {sortKeyConditionInput}
        ELSE conditionTypes

(***************************************************************************)
(* getTemplateReferences: the walk over a template that collects, for each *)
(* referenced logical name, the paths at which it is referenced.           *)
(***************************************************************************)
\* Largest nesting of a template.
MaxDepth == 4
\* Largest number of mergeReferenceMaps calls on the same maps.
MaxMerges == 2
\* Largest nesting of a template that is walked twice.
MaxSharedDepth == 2
\* Largest number of changes a caller makes to the arrays of the results.
MaxMutations == 1

\* The values of a template as JSON hands them over.  A mapping and a list
\* hold their children as entries in the order of Object.keys; the keys of a
\* list are its indices as strings.
StringNode(text) == [type |-> "string", text |-> text, entries |-> <<>>]
\* A number or a boolean, text being what it prints as.
ScalarNode(type, text) == [type |-> type, text |-> text, entries |-> <<>>]
NullNode == [type |-> "null", text |-> "", entries |-> <<>>]
UndefinedNode == [type |-> "undefined", text |-> "", entries |-> <<>>]
Entry(key, value) == [key |-> key, value |-> value]
ObjectNode(entries) == [type |-> "object", text |-> "", entries |-> entries]

IndexString(i) ==
    CASE i = 0 -> "0" [] i = 1 -> "1" [] i = 2 -> "2" [] i = 3 -> "3" [] OTHER -> "n"

ArrayNode(items) ==
    [type |-> "array", text |-> "",
     entries |-> [i \in 1..Len(items) |-> Entry(IndexString(i - 1), items[i])]]

\* Fn.Ref(name).toJSON() and Fn.GetAtt(name, attribute).toJSON()
RefNode(name) == ObjectNode(<< Entry("Ref", StringNode(name)) >>)
GetAttNode(name, attribute) ==
    ObjectNode(<< Entry("Fn::GetAtt", ArrayNode(<< StringNode(name), StringNode(attribute) >>)) >>)

typeof(node) == IF node.type \in {"object", "array", "null"} THEN "object" ELSE node.type

\* jsonNode[key]: undefined if the node has no such property.
Property(node, key) ==
    IF \E i \in 1..Len(node.entries) : node.entries[i].key = key
    THEN node.entries[CHOOSE i \in 1..Len(node.entries) : node.entries[i].key = key].value
    ELSE UndefinedNode

\* if (value): every object and list, every string but the empty one, every
\* number but 0, and true.
Truthy(node) ==
    \/ node.type \in {"object", "array"}
    \/ node.type = "string" /\ node.text # ""
    \/ node.type = "number" /\ node.text # "0"
    \/ node.type = "boolean" /\ node.text = "true"

\* A value used as the key of a computed property.
PropertyKey(node) ==
    CASE node.type \in {"string", "number", "boolean"} -> node.text
      [] node.type = "object" -> "[object Object]"
      [] OTHER -> node.type

EmptyReferenceMap == [k \in {} |-> <<>>]

\* mergeReferenceMaps keeping the list of b where a and b have the same key.
mergeReferenceMapsOverwriting(a, b) ==
    [k \in DOMAIN a \cup DOMAIN b |-> IF k \in DOMAIN b THEN b[k] ELSE a[k]]

\* The map mergeReferenceMaps(a, b) returns, which is the object a updated in place.
mergeReferenceMaps(a, b) ==
    [k \in DOMAIN a \cup DOMAIN b |->
        IF k \in DOMAIN b
        THEN IF k \in DOMAIN a THEN a[k] \o b[k] ELSE b[k]
        ELSE a[k]]

\* What a call returns: a reference map, or nothing because it threw.
Returned(refs) == [threw |-> FALSE, refs |-> refs]
Threw == [threw |-> TRUE, refs |-> EmptyReferenceMap]

\* The name a reference node refers to, with only the Ref form looked at.
ReferenceTargetOfRefOnly(jsonNode) ==
    LET refValue == Property(jsonNode, "Ref")
    IN  IF Truthy(refValue) THEN << PropertyKey(refValue) >> ELSE <<>>

\* The name a node refers to if it is a reference node: the target of Ref,
\* else the first component of Fn::GetAtt; empty if it is neither.
ReferenceTarget(jsonNode) ==
    LET refValue == Property(jsonNode, "Ref")
        getAtt == Property(jsonNode, "Fn::GetAtt")
    IN  IF Truthy(refValue) THEN << PropertyKey(refValue) >>
        ELSE IF Truthy(getAtt) THEN << PropertyKey(Property(getAtt, "0")) >>
        ELSE <<>>

RECURSIVE walk(_, _)
RECURSIVE walkKeys(_, _, _, _)

\* The loop of walk over the keys of jsonNode from the k-th on.
walkKeys(jsonNode, path, k, refsFromAllKeys) ==
    IF k > Len(jsonNode.entries) THEN Returned(refsFromAllKeys)
    ELSE LET refsForKey == walk(jsonNode.entries[k].value, Append(path, jsonNode.entries[k].key))
         IN  IF refsForKey.threw THEN Threw
             ELSE walkKeys(jsonNode, path, k + 1, mergeReferenceMaps(refsFromAllKeys, refsForKey.refs))

walk(node, path) ==
    LET jsonNode == node
    IN  IF typeof(jsonNode) = "object"
        THEN IF jsonNode.type = "null" THEN Threw
             ELSE IF ReferenceTarget(jsonNode) # <<>>
             THEN Returned([name \in {ReferenceTarget(jsonNode)[1]} |-> << path >>])
             ELSE walkKeys(jsonNode, path, 1, EmptyReferenceMap)
        ELSE IF jsonNode.type = "array"
        THEN walkKeys(jsonNode, path, 1, EmptyReferenceMap)
        ELSE Returned(EmptyReferenceMap)

getTemplateReferences(template) == walk(template, <<>>)

\* The walk again, with the arrays it creates as cells of a heap: a path is
\* a cell of strings, the list of the paths of a name a cell of the
\* addresses of its paths, and a reference map holds the address of the
\* list of each name.
PathCell(strings) == [kind |-> "path", strings |-> strings, addresses |-> <<>>]
ListCell(addresses) == [kind |-> "list", strings |-> <<>>, addresses |-> addresses]

\* mergeReferenceMaps for the keys of b not merged yet: concat creates a
\* list, a key a does not have gets the very list of b.
RECURSIVE mergeReferenceMapsIn(_, _, _, _)
mergeReferenceMapsIn(heap, a, b, bKeys) ==
    IF bKeys = {} THEN [heap |-> heap, refs |-> a]
    ELSE LET bKey == CHOOSE k \in bKeys : TRUE
         IN  IF bKey \in DOMAIN a
             THEN LET created == Append(heap, ListCell(heap[a[bKey]].addresses \o heap[b[bKey]].addresses))
                  IN  mergeReferenceMapsIn(created, [a EXCEPT ![bKey] = Len(created)], b, bKeys \ {bKey})
             ELSE mergeReferenceMapsIn(heap,
                    [k \in DOMAIN a \cup {bKey} |-> IF k = bKey THEN b[bKey] ELSE a[k]], b, bKeys \ {bKey})

RECURSIVE walkIn(_, _, _)
RECURSIVE walkKeysIn(_, _, _, _, _)

\* path.concat(key) creates the path of the child.
walkKeysIn(heap, jsonNode, path, k, refsFromAllKeys) ==
    IF k > Len(jsonNode.entries) THEN [threw |-> FALSE, heap |-> heap, refs |-> refsFromAllKeys]
    ELSE LET created == Append(heap, PathCell(Append(heap[path].strings, jsonNode.entries[k].key)))
             refsForKey == walkIn(created, jsonNode.entries[k].value, Len(created))
             merged == mergeReferenceMapsIn(refsForKey.heap, refsFromAllKeys, refsForKey.refs,
                                            DOMAIN refsForKey.refs)
         IN  IF refsForKey.threw THEN refsForKey
             ELSE walkKeysIn(merged.heap, jsonNode, path, k + 1, merged.refs)

\* { [name]: [path] } creates the list that holds the path handed in.
walkIn(heap, jsonNode, path) ==
    IF jsonNode.type = "null" THEN [threw |-> TRUE, heap |-> heap, refs |-> EmptyReferenceMap]
    ELSE IF typeof(jsonNode) = "object" /\ ReferenceTarget(jsonNode) # <<>>
    THEN LET created == Append(heap, ListCell(<< path >>))
         IN  [threw |-> FALSE, heap |-> created,
              refs |-> [name \in {ReferenceTarget(jsonNode)[1]} |-> Len(created)]]
    ELSE walkKeysIn(heap, jsonNode, path, 1, EmptyReferenceMap)

\* getTemplateReferences that hands every walk the path the first walk started from.
getTemplateReferencesFromSharedPath(heap, template) ==
    IF heap = <<>> THEN walkIn(<< PathCell(<<>>) >>, template, 1)
    ELSE walkIn(heap, template, 1)

\* walk(template, []) creates the path the walk starts from.
getTemplateReferencesIn(heap, template) ==
    LET created == Append(heap, PathCell(<<>>))
    IN  walkIn(created, template, Len(created))

\* The templates: a value, put under a key or into a list again and again.
TemplateValues ==
    { StringNode("text"), ScalarNode("number", "0"), ScalarNode("boolean", "true"),
      NullNode, UndefinedNode, RefNode("Foo"), GetAttNode("Bar", "Arn") }

\* The keys of the levels of a template, innermost first.
LevelKey(depth) == << "Bar", "Properties", "Foo", "Resources" >>[((depth - 1) % 4) + 1]

\* The templates nested at most depth levels deep; what is put next to the
\* nested part is a Ref to Foo.
RECURSIVE Templates(_)
Templates(depth) ==
    IF depth = 0 THEN TemplateValues
    ELSE LET nested == Templates(depth - 1)
             key == LevelKey(depth)
         IN  nested
             \cup { ObjectNode(<< Entry(key, t) >>) : t \in nested }
             \cup { ObjectNode(<< Entry(key, t), Entry("Other", RefNode("Foo")) >>) : t \in nested }
             \cup { ObjectNode(<< Entry("Other", RefNode("Foo")), Entry(key, t) >>) : t \in nested }
             \cup { ArrayNode(<< t >>) : t \in nested }
             \cup { ArrayNode(<< RefNode("Foo"), t >>) : t \in nested }

\* The paths and reference maps mergeReferenceMaps is called with.
MergeOperands ==
    UNION { [names -> { << << "Resources", "Foo" >> >>, << << "Outputs", "0" >> >> }] :
                names \in SUBSET {"Foo", "Bar"} }

NotWalked == [threw |-> FALSE, refs |-> [k \in {"not walked"} |-> <<>>]]

(***************************************************************************)
(* The read authorization template of the auth ResourceFactory: the       *)
(* statements its expressions print, and what running them does to the     *)
(* variables of the template.                                              *)
(***************************************************************************)
\* Largest number of @auth rules of a type.
MaxRules == 2
\* Largest number of times the authorization blocks are put into one template.
MaxPasses == 2

NONE_VALUE == "___xamznone____"
DEFAULT_OWNER_FIELD == "owner"
DEFAULT_IDENTITY_FIELD == "username"
DEFAULT_GROUPS_FIELD == "groups"
OWNER_AUTH_STRATEGY == "owner"
GROUPS_AUTH_STRATEGY == "groups"

\* ResourceConstants.SNIPPETS: the variables of the template that hold the flags.
IsNotAuthProtectedVariable == "isNotAuthProtected"
IsStaticGroupAuthorizedVariable == "isStaticGroupAuthorized"
IsDynamicGroupAuthorizedVariable == "isDynamicGroupAuthorized"
IsOwnerAuthorizedVariable == "isOwnerAuthorized"

FlagVariables ==
    { IsNotAuthProtectedVariable, IsStaticGroupAuthorizedVariable,
      IsDynamicGroupAuthorizedVariable, IsOwnerAuthorizedVariable }

\* The values of the template: null, true, false, a string, a list of strings.
VtlNull == [type |-> "null", text |-> "", items |-> <<>>]
VtlTrue == [type |-> "boolean", text |-> "true", items |-> <<>>]
VtlFalse == [type |-> "boolean", text |-> "false", items |-> <<>>]
VtlString(text) == [type |-> "string", text |-> text, items |-> <<>>]
VtlList(items) == [type |-> "list", text |-> "", items |-> items]

\* $util.defaultIfNull that hands back the default whatever the value is.
defaultIfNullResetting(value, default) == default

defaultIfNull(value, default) == IF value.type = "null" THEN default ELSE value

\* The elements #foreach runs over: none unless the value is a list.
Elements(value) == IF value.type = "list" THEN { value.items[i] : i \in 1..Len(value.items) } ELSE {}

\* An @auth rule; a field the rule does not give is NoField, and groups is
\* empty unless the rule names static groups.
NoField == ""
AuthRule(allow, groups, groupsField, ownerField, identityField) ==
    [allow |-> allow, groups |-> groups, groupsField |-> groupsField,
     ownerField |-> ownerField, identityField |-> identityField]
NoRule == AuthRule("", <<>>, NoField, NoField, NoField)

\* The rules of each strategy, in the order of the directive.
getStaticGroupRules(rules) ==
    SelectSeq(rules, LAMBDA rule : rule.allow = GROUPS_AUTH_STRATEGY /\ rule.groups # <<>>)
getDynamicGroupRules(rules) ==
    SelectSeq(rules, LAMBDA rule : rule.allow = GROUPS_AUTH_STRATEGY /\ rule.groups = <<>>)
getOwnerRules(rules) ==
    SelectSeq(rules, LAMBDA rule : rule.allow = OWNER_AUTH_STRATEGY)

\* A statement of the template.
Statement(op, variable, rule) == [op |-> op, variable |-> variable, rule |-> rule]
Comment == Statement("comment", "", NoRule)

RECURSIVE Flatten(_)
Flatten(lists) == IF lists = <<>> THEN <<>> ELSE Head(lists) \o Flatten(Tail(lists))

\* The allowedGroups list of the static group block: the groups of all the
\* rules but the empty names.
RECURSIVE NonEmptyNames(_)
NonEmptyNames(names) ==
    IF names = <<>> THEN <<>>
    ELSE IF Head(names) # "" THEN << Head(names) >> \o NonEmptyNames(Tail(names))
    ELSE NonEmptyNames(Tail(names))

staticAllowedGroups(rules) ==
    NonEmptyNames(Flatten([i \in 1..Len(rules) |-> rules[i].groups]))

staticGroupAuthorizationExpression(rules) ==
    IF Len(rules) = 0 THEN << Comment >>
    ELSE << Comment,
            Statement("setUserGroups", "userGroups", NoRule),
            Statement("defaultIfNull", IsStaticGroupAuthorizedVariable, NoRule),
            Statement("staticGroups", IsStaticGroupAuthorizedVariable,
                AuthRule(GROUPS_AUTH_STRATEGY, staticAllowedGroups(rules), NoField, NoField, NoField)),
            Comment >>

dynamicGroupAuthorizationExpressionForReadOperations(rules) ==
    IF Len(rules) = 0 THEN << Comment >>
    ELSE << Comment, Statement("defaultIfNull", IsDynamicGroupAuthorizedVariable, NoRule) >>
         \o Flatten([i \in 1..Len(rules) |->
                << Comment, Statement("dynamicGroups", IsDynamicGroupAuthorizedVariable, rules[i]) >>])
         \o << Comment >>

ownerAuthorizationExpressionForReadOperations(rules) ==
    IF Len(rules) = 0 THEN << Comment >>
    ELSE << Comment, Statement("defaultIfNull", IsOwnerAuthorizedVariable, NoRule) >>
         \o Flatten([i \in 1..Len(rules) |->
                << Comment, Statement("owner", IsOwnerAuthorizedVariable, rules[i]) >>])
         \o << Comment >>

isNotAuthProtectedSnippet == << Statement("setTrue", IsNotAuthProtectedVariable, NoRule) >>

throwIfUnauthorizedForReadOperationsStatement ==
    << Statement("throwIfUnauthorized", "", NoRule) >>

\* The template of a read resolver: the snippet of an unprotected operation
\* if it is one, the blocks of the three strategies, once or several times
\* over, and the gate.
RECURSIVE AuthorizationBlocks(_, _)
AuthorizationBlocks(rules, passes) ==
    IF passes = 0 THEN <<>>
    ELSE staticGroupAuthorizationExpression(getStaticGroupRules(rules))
         \o dynamicGroupAuthorizationExpressionForReadOperations(getDynamicGroupRules(rules))
         \o ownerAuthorizationExpressionForReadOperations(getOwnerRules(rules))
         \o AuthorizationBlocks(rules, passes - 1)

ReadAuthorizationTemplate(rules, passes, protected) ==
    (IF protected THEN <<>> ELSE isNotAuthProtectedSnippet)
    \o AuthorizationBlocks(rules, passes)
    \o throwIfUnauthorizedForReadOperationsStatement

\* $ctx.result.<field> and $ctx.identity.<field>: null if there is no such field.
FieldOf(record, field) == IF field \in DOMAIN record THEN record[field] ELSE VtlNull

\* The forEach of the static group block: some group of the user is an allowed group.
staticGroupsMatch(userGroups, allowedGroups) ==
    \E userGroup \in Elements(userGroups) : \E i \in 1..Len(allowedGroups) :
        allowedGroups[i] = userGroup

\* The forEach of a dynamic group rule on the groups attribute of the result.
dynamicGroupsMatch(userGroups, result, rule) ==
    LET groupsAttribute == IF rule.groupsField # NoField THEN rule.groupsField ELSE DEFAULT_GROUPS_FIELD
        allowedGroups == FieldOf(result, groupsAttribute)
    IN  \E userGroup \in Elements(userGroups) :
            \/ allowedGroups.type = "list" /\ userGroup \in Elements(allowedGroups)
            \/ allowedGroups.type = "string" /\ allowedGroups.text = userGroup

\* The two checks of an owner rule on the owner attribute of the result.
ownerMatch(identity, result, rule) ==
    LET ownerAttribute == IF rule.ownerField # NoField THEN rule.ownerField ELSE DEFAULT_OWNER_FIELD
        identityAttribute ==
            IF rule.identityField # NoField THEN rule.identityField ELSE DEFAULT_IDENTITY_FIELD
        allowedOwners == FieldOf(result, ownerAttribute)
        identityValue == defaultIfNull(FieldOf(identity, identityAttribute), VtlString(NONE_VALUE))
    IN  \/ allowedOwners.type = "list" /\ \E allowedOwner \in Elements(allowedOwners) :
                VtlString(allowedOwner) = identityValue
        \/ allowedOwners.type = "string" /\ allowedOwners = identityValue

\* The gate that leaves the owner flag out.
throwIfUnauthorizedForReadOperationsWithoutOwner(variables) ==
    ~(\/ variables[IsNotAuthProtectedVariable] = VtlTrue
      \/ variables[IsStaticGroupAuthorizedVariable] = VtlTrue
      \/ variables[IsDynamicGroupAuthorizedVariable] = VtlTrue)

\* The condition under which the gate calls $util.unauthorized().
throwIfUnauthorizedForReadOperations(variables) ==
    ~(\/ variables[IsNotAuthProtectedVariable] = VtlTrue
      \/ variables[IsStaticGroupAuthorizedVariable] = VtlTrue
      \/ variables[IsDynamicGroupAuthorizedVariable] = VtlTrue
      \/ variables[IsOwnerAuthorizedVariable] = VtlTrue)

\* The variables of a template before it runs: none is set.
NoVariables == [v \in FlagVariables \cup {"userGroups"} |-> VtlNull]

\* The rules of @auth directives and the requests the templates are run on.
AuthRules ==
    { AuthRule(GROUPS_AUTH_STRATEGY, groups, NoField, NoField, NoField) :
        groups \in { << "Admin" >>, << "Dev", "" >> } }
    \cup { AuthRule(GROUPS_AUTH_STRATEGY, <<>>, groupsField, NoField, NoField) :
        groupsField \in { NoField, "editors" } }
    \cup { AuthRule(OWNER_AUTH_STRATEGY, <<>>, NoField, NoField, NoField),
           AuthRule(OWNER_AUTH_STRATEGY, <<>>, NoField, "editors", "sub") }

AuthRuleLists == UNION { [1..n -> AuthRules] : n \in 0..MaxRules }

Identities ==
    { [claims |-> groups, username |-> VtlString("alice"), sub |-> VtlString("u-1")] :
        groups \in { VtlNull, VtlList(<< "Admin" >>), VtlList(<< "Dev" >>) } }

Results ==
    { [groups |-> VtlString("Admin"), editors |-> VtlList(<< "Dev" >>), owner |-> VtlString("alice")],
      [groups |-> VtlList(<< "Dev", "Admin" >>), editors |-> VtlNull, owner |-> VtlString("bob")],
      [groups |-> VtlNull, editors |-> VtlList(<< "bob", "u-1" >>), owner |-> VtlList(<< "bob", "alice" >>)],
      [groups |-> VtlString("Ops"), editors |-> VtlString("u-2"), owner |-> VtlNull] }

(***************************************************************************)
(* The write authorization template: the $authCondition that update and    *)
(* delete resolvers hand to DynamoDB as the condition of the write. An      *)
(* expression is the sequence of the tokens of its text.                   *)
(***************************************************************************)
\* $authCondition before any fragment has set it.
NoCondition == [expression |-> << "not set" >>]

\* map.put(key, value): the value of the key is replaced if the map has it.
Put(map, key, value) ==
    [k \in DOMAIN map \cup {key} |-> IF k = key THEN value ELSE map[k]]

PutAll(map, other) ==
    [k \in DOMAIN map \cup DOMAIN other |-> IF k \in DOMAIN other THEN other[k] ELSE map[k]]

Items(value) == IF value.type = "list" THEN value.items ELSE <<>>

\* ":group$foreach.count"
GroupPlaceholder(count) == ":group" \o IndexString(count)

\* $groupAuthExpression after the forEach over $userGroups: one contains per
\* group of the user, OR after each but the last.
groupAuthExpression(userGroups) ==
    Flatten([count \in 1..Len(Items(userGroups)) |->
                << "contains(#groupsAttribute, " \o GroupPlaceholder(count) \o ")" >>
                \o (IF count < Len(Items(userGroups)) THEN << "OR" >> ELSE <<>>)])

\* $groupAuthExpressionValues after the forEach: { ":groupN": { "S": $userGroup } }
groupAuthExpressionValues(userGroups) ==
    LET placeholders == { GroupPlaceholder(count) : count \in 1..Len(Items(userGroups)) }
    IN  [placeholder \in placeholders |->
            Items(userGroups)[CHOOSE count \in 1..Len(Items(userGroups)) :
                                GroupPlaceholder(count) = placeholder]]

ownerUpdateAndDeleteResolverRequestMappingTemplateSnippet(condition, ownerAttribute, identityValue) ==
    IF condition = NoCondition
    THEN [expression |-> << "#owner = :username" >>,
          expressionNames |-> [k \in {"#owner"} |-> ownerAttribute],
          expressionValues |-> [k \in {":username"} |-> identityValue]]
    ELSE [expression |-> << "(" >> \o condition.expression \o << ")", "AND", "#owner = :username" >>,
          expressionNames |-> Put(condition.expressionNames, "#owner", ownerAttribute),
          expressionValues |-> Put(condition.expressionValues, ":username", identityValue)]

dynamicGroupUpdateAndDeleteResolverRequestMappingTemplateSnippet(condition, groupsAttribute, userGroups) ==
    IF condition = NoCondition
    THEN [expression |-> groupAuthExpression(userGroups),
          expressionNames |-> [k \in {"#groupsAttribute"} |-> groupsAttribute],
          expressionValues |-> groupAuthExpressionValues(userGroups)]
    ELSE [expression |-> condition.expression \o << "AND", "(" >> \o groupAuthExpression(userGroups) \o << ")" >>,
          expressionNames |-> Put(condition.expressionNames, "#groupsAttribute", groupsAttribute),
          expressionValues |-> PutAll(condition.expressionValues, groupAuthExpressionValues(userGroups))]

\* handleStaticGroupAuthorizationCheck: the condition it leaves and whether
\* it calls $util.unauthorized(); the flag it reads is $isAuthorized.
handleStaticGroupAuthorizationCheck(isAuthorized, condition) ==
    LET holds == isAuthorized # VtlNull /\ isAuthorized # VtlFalse
    IN  [condition |->
            IF holds /\ condition # NoCondition
            THEN [condition EXCEPT !.expression = @ \o << "OR", "(", "attribute_exists(#id)", ")" >>]
            ELSE condition,
         unauthorized |-> ~holds /\ condition = NoCondition]

\* The write template of a type: the user groups, the static group block,
\* a fragment for every owner and dynamic group rule in the order of the
\* rules, and the static group check.
WriteAuthorizationTemplate(rules) ==
    << Statement("setUserGroups", "userGroups", NoRule) >>
    \o staticGroupAuthorizationExpression(getStaticGroupRules(rules))
    \o Flatten([i \in 1..Len(rules) |->
            IF rules[i].allow = OWNER_AUTH_STRATEGY THEN << Statement("ownerCondition", "authCondition", rules[i]) >>
            ELSE IF rules[i].groups = <<>> THEN << Statement("groupCondition", "authCondition", rules[i]) >>
            ELSE <<>>])
    \o << Statement("staticGroupCheck", "isAuthorized", NoRule) >>

\* The variables of a write template before it runs.
NoWriteVariables == [v \in FlagVariables \cup {"userGroups", "isAuthorized"} |-> VtlNull]

\* The callers of a write: in no group, in one and in two.
WriteIdentities ==
    { [claims |-> groups, username |-> VtlString("alice"), sub |-> VtlString("u-1")] :
        groups \in { VtlNull, VtlList(<< "Admin" >>), VtlList(<< "Ops", "Dev" >>) } }

(***************************************************************************)
(* The state.                                                              *)
(***************************************************************************)
VARIABLES
    definition,      \* the object type being compiled
    applied,         \* number of its @key directives applied so far
    error,           \* the error that aborted the compilation, NoError if none
    table,           \* Properties of the type's table resource in the Context
    queryType,       \* fields of the Query type in the Context
    inputs,          \* the create, update and delete input types in the Context
    resolvers,       \* the resolver resources in the Context
    stackMapping,    \* resource id patterns mapped to stacks
    conditionInputs, \* key condition input types in the Context
    copy,            \* a second copy of the compilation, stepped side by side
    template,        \* the template handed to getTemplateReferences
    references,      \* what getTemplateReferences returned for it
    maps,            \* the reference maps mergeReferenceMaps is called on
    calls,           \* number of mergeReferenceMaps calls made on them
    heap,            \* the arrays the walks of the template created
    results,         \* the reference maps the walks of the template returned
    mutations,       \* number of changes the caller made to arrays of the results
    authRules,       \* the rules of the @auth directive of a type
    request,         \* the identity of the caller and the result of the read
    mappingTemplate, \* the statements of the read authorization template
    variables,       \* the variables of the template while it runs
    pc,              \* the statement of the template to run next
    authCondition,   \* the $authCondition of a write template
    unauthorized     \* whether the template called $util.unauthorized()

ctx == <<table, queryType, inputs, resolvers, stackMapping, conditionInputs>>
keyVars == <<definition, applied, error, table, queryType, inputs, resolvers, stackMapping, conditionInputs, copy>>
referenceVars == <<template, references, maps, calls, heap, results, mutations>>
authVars == <<authRules, request, mappingTemplate, variables, pc, authCondition, unauthorized>>
vars == <<keyVars, referenceVars, authVars>>

\* No template is being walked and no reference maps are being merged.
NoSharedResults ==
    /\ heap = <<>>
    /\ results = <<>>
    /\ mutations = 0

NoReferences ==
    /\ template = UndefinedNode
    /\ references = NotWalked
    /\ maps = <<>>
    /\ calls = 0
    /\ NoSharedResults

\* No template of a resolver is running.
NoAuthorization ==
    /\ authRules = <<>>
    /\ request = [identity |-> [claims |-> VtlNull], result |-> [owner |-> VtlNull]]
    /\ mappingTemplate = <<>>
    /\ variables = NoVariables
    /\ pc = 1
    /\ authCondition = NoCondition
    /\ unauthorized = FALSE

\* The table @model creates: keyed by id.
ModelTable ==
    [exists |-> TRUE,
     KeySchema |-> << [AttributeName |-> "id", KeyType |-> "HASH"] >>,
     AttributeDefinitions |-> << [AttributeName |-> "id", AttributeType |-> "S"] >>,
     GlobalSecondaryIndexes |-> <<>>,
     LocalSecondaryIndexes |-> <<>>]

\* ctx.getResource of the table of a type that @model has not been applied to.
NoTable ==
    [exists |-> FALSE,
     KeySchema |-> <<>>,
     AttributeDefinitions |-> <<>>,
     GlobalSecondaryIndexes |-> <<>>,
     LocalSecondaryIndexes |-> <<>>]

\* The Query fields @model generates for the operations it was asked for.
ModelQueryFields(def, operations) ==
    (IF "Get" \in operations
     THEN << [name |-> "get" \o def.name,
              arguments |-> << makeInputValueDefinition("id", NonNullType("ID")) >>] >>
     ELSE <<>>) \o
    (IF "List" \in operations
     THEN << [name |-> "list" \o def.name \o "s", arguments |-> ConnectionArguments(def.name)] >>
     ELSE <<>>)

ModelFieldName(operation, def) ==
    CASE operation = "Get" -> "get" \o def.name
      [] operation = "List" -> "list" \o def.name \o "s"
      [] operation = "Create" -> "create" \o def.name
      [] operation = "Update" -> "update" \o def.name
      [] operation = "Delete" -> "delete" \o def.name

ModelResolvers(def, operations) ==
    [id \in ResolverIDs |->
        IF \E op \in operations : id = DynamoDBResolverResourceID(op, def.name)
        THEN LET op == CHOOSE op \in operations : id = DynamoDBResolverResourceID(op, def.name)
             IN  [exists |-> TRUE,
                  FieldName |-> ModelFieldName(op, def),
                  RequestMappingTemplate |-> << TemplateText(op \o " request of @model") >>]
        ELSE NoResource]

\* The input types @model generates: id is optional on create and required on update.
ModelInputs(def, operations) ==
    [n \in InputNames |->
        IF n = ModelInputObjectName("Create", def.name) /\ "Create" \in operations
        THEN [exists |-> TRUE,
              fields |-> MapSeq(def.fields, LAMBDA f :
                            makeInputValueDefinition(f.name,
                                IF f.name = "id" THEN makeNamedType(getBaseType(f.type)) ELSE f.type))]
        ELSE IF n = ModelInputObjectName("Update", def.name) /\ "Update" \in operations
        THEN [exists |-> TRUE,
              fields |-> MapSeq(def.fields, LAMBDA f :
                            makeInputValueDefinition(f.name,
                                IF f.name = "id" THEN makeNonNullType(makeNamedType(getBaseType(f.type)))
                                ELSE makeNamedType(getBaseType(f.type))))]
        ELSE IF n = ModelInputObjectName("Delete", def.name) /\ "Delete" \in operations
        THEN [exists |-> TRUE,
              fields |-> << makeInputValueDefinition("id", makeNamedType("ID")) >>]
        ELSE NoType]

\* The operations @model was asked to generate.
ModelConfigurations == { ModelOperations, {} }

\* The compilations: every declaration of the fields with all the operations
\* of @model, and the plain declaration with every configuration of @model.
Compilations ==
    { [fields |-> f, operations |-> ModelOperations] : f \in FieldDeclarations } \cup
    { [fields |-> FieldsWith(<< [name |-> "email", type |-> NonNullType("String")] >>), operations |-> o] :
        o \in ModelConfigurations }

\* No second copy of the compilation is kept.
NoCopy == [applied |-> 0 - 1]

Init ==
    /\ \E c \in Compilations, ds \in DirectiveLists :
        /\ definition = [name |-> TypeName, fields |-> c.fields, directives |-> ds]
        /\ queryType = ModelQueryFields(definition, c.operations)
        /\ inputs = ModelInputs(definition, c.operations)
        /\ resolvers = ModelResolvers(definition, c.operations)
    /\ applied = 0
    /\ error = NoError
    /\ table = ModelTable
    /\ stackMapping = {}
    /\ conditionInputs = {}
    /\ copy = NoCopy
    /\ NoReferences
    /\ NoAuthorization

\* The Context as one value.
Context ==
    [table |-> table, queryType |-> queryType, inputs |-> inputs, resolvers |-> resolvers,
     stackMapping |-> stackMapping, conditionInputs |-> conditionInputs]

\* object with the index structures updated before the directive is validated.
objectValidatesAfterIndexUpdate(c, def, i) ==
    LET directive == def.directives[i]
    IN  IF FieldsError(def, getDirectiveArguments(directive)) # NoError
        THEN [ctx |-> c, error |-> FieldsError(def, getDirectiveArguments(directive))]
        ELSE IF validate(def, i) # NoError
        THEN [ctx |-> [c EXCEPT !.table = updateIndexStructures(c.table, def, directive)],
              error |-> validate(def, i)]
        ELSE [ctx |->
                [table |-> updateIndexStructures(c.table, def, directive),
                 queryType |-> updateQueryFields(c.queryType, c.resolvers, def, directive),
                 inputs |-> updateInputObjects(c.inputs, def, directive),
                 resolvers |-> updateResolvers(c.resolvers, def, directive),
                 stackMapping |-> updateStackMapping(c.stackMapping, def, directive),
                 conditionInputs |-> addKeyConditionInputs(c.conditionInputs, def, directive)],
              error |-> NoError]

\* object(definition, directive, ctx) for the i-th directive of the type: the
\* Context it leaves behind and the error it throws, NoError if it returns.
object(c, def, i) ==
    LET directive == def.directives[i]
    IN  IF validate(def, i) # NoError
        THEN [ctx |-> c, error |-> validate(def, i)]
        ELSE IF updateIndexStructuresError(c.table, def, directive) # NoError
        THEN [ctx |-> c, error |-> updateIndexStructuresError(c.table, def, directive)]
        ELSE IF updateResolversError(c.resolvers, def, directive) # NoError
        THEN [ctx |->
                [c EXCEPT
                    !.table = updateIndexStructures(c.table, def, directive),
                    !.queryType = updateQueryFields(c.queryType, c.resolvers, def, directive),
                    !.inputs = updateInputObjects(c.inputs, def, directive),
                    !.resolvers = updateResolversUntilError(c.resolvers, def, directive)],
              error |-> updateResolversError(c.resolvers, def, directive)]
        ELSE [ctx |->
                [table |-> updateIndexStructures(c.table, def, directive),
                 queryType |-> updateQueryFields(c.queryType, c.resolvers, def, directive),
                 inputs |-> updateInputObjects(c.inputs, def, directive),
                 resolvers |-> updateResolvers(c.resolvers, def, directive),
                 stackMapping |-> updateStackMapping(c.stackMapping, def, directive),
                 conditionInputs |-> addKeyConditionInputs(c.conditionInputs, def, directive)],
              error |-> NoError]

Running == error = NoError /\ applied < Len(definition.directives)

SetContext(c) ==
    /\ table' = c.table
    /\ queryType' = c.queryType
    /\ inputs' = c.inputs
    /\ resolvers' = c.resolvers
    /\ stackMapping' = c.stackMapping
    /\ conditionInputs' = c.conditionInputs

\* The next directive of the type is applied and object throws: the compilation is aborted.
ObjectThrows ==
    /\ Running
    /\ LET result == object(Context, definition, applied + 1)
       IN  /\ result.error # NoError
           /\ error' = result.error
           /\ SetContext(result.ctx)
    /\ UNCHANGED <<definition, applied, copy, referenceVars, authVars>>

\* The next directive of the type is applied and object returns.
ObjectReturns ==
    /\ Running
    /\ LET result == object(Context, definition, applied + 1)
       IN  /\ result.error = NoError
           /\ SetContext(result.ctx)
    /\ applied' = applied + 1
    /\ UNCHANGED <<definition, error, copy, referenceVars, authVars>>

Next == ObjectThrows \/ ObjectReturns

Spec == Init /\ [][Next]_vars

(***************************************************************************)
(* The directives of a type are applied to two copies of the Context @model *)
(* left, side by side.                                                     *)
(***************************************************************************)
TwiceInit ==
    /\ \E c \in Compilations, ds \in DirectiveLists :
        /\ definition = [name |-> TypeName, fields |-> c.fields, directives |-> ds]
        /\ queryType = ModelQueryFields(definition, c.operations)
        /\ inputs = ModelInputs(definition, c.operations)
        /\ resolvers = ModelResolvers(definition, c.operations)
    /\ applied = 0
    /\ error = NoError
    /\ table = ModelTable
    /\ stackMapping = {}
    /\ conditionInputs = {}
    /\ copy = [applied |-> 0, error |-> NoError, ctx |-> Context]
    /\ NoReferences
    /\ NoAuthorization

\* object on the second copy, which leaves out the resolvers.
objectOnCopyWithoutResolvers(c, def, i) ==
    [object(c, def, i) EXCEPT !.ctx.resolvers = c.resolvers]

\* object on the second copy: the same method on the Context of that copy.
objectOnCopy(c, def, i) == object(c, def, i)

\* The next directive of the type is applied to both copies.
ObjectOnBoth ==
    /\ Running
    /\ copy.error = NoError
    /\ LET result == object(Context, definition, applied + 1)
           again == objectOnCopy(copy.ctx, definition, copy.applied + 1)
       IN  /\ SetContext(result.ctx)
           /\ error' = result.error
           /\ applied' = IF result.error = NoError THEN applied + 1 ELSE applied
           /\ copy' = [applied |-> IF again.error = NoError THEN copy.applied + 1 ELSE copy.applied,
                       error |-> again.error,
                       ctx |-> again.ctx]
    /\ UNCHANGED <<definition, referenceVars, authVars>>

TwiceNext == ObjectOnBoth

TwiceSpec == TwiceInit /\ [][TwiceNext]_vars

(***************************************************************************)
(* Compilations that break the contract of the transformer: a @key with an *)
(* empty fields list, and a @key on a type @model was not applied to.      *)
(***************************************************************************)
EmptyFieldsKeyArguments ==
    [name : KeyNames, fields : {<<>>}, queryField : {NoQueryField} \cup QueryFieldNames]

ContractDirectiveLists ==
    UNION { [1..n -> KeyArguments \cup EmptyFieldsKeyArguments] : n \in 1..MaxDirectives }

HasEmptyFieldsList(ds) == \E i \in 1..Len(ds) : Len(ds[i].fields) = 0

ContractInit ==
    /\ \E withModel \in BOOLEAN, ds \in ContractDirectiveLists :
        /\ withModel => HasEmptyFieldsList(ds)
        /\ definition =
            [name |-> TypeName,
             fields |-> FieldsWith(<< [name |-> "email", type |-> NonNullType("String")] >>),
             directives |-> ds]
        /\ table = IF withModel THEN ModelTable ELSE NoTable
        /\ queryType = ModelQueryFields(definition, IF withModel THEN ModelOperations ELSE {})
        /\ inputs = ModelInputs(definition, IF withModel THEN ModelOperations ELSE {})
        /\ resolvers = ModelResolvers(definition, IF withModel THEN ModelOperations ELSE {})
    /\ applied = 0
    /\ error = NoError
    /\ stackMapping = {}
    /\ conditionInputs = {}
    /\ copy = NoCopy
    /\ NoReferences
    /\ NoAuthorization

ContractSpec == ContractInit /\ [][Next]_vars

(***************************************************************************)
(* The reference maps of templates: mergeReferenceMaps called again and    *)
(* again on three maps, and getTemplateReferences called on a template.    *)
(***************************************************************************)
\* No type is being compiled.
NoCompilation ==
    /\ definition = [name |-> TypeName, fields |-> <<>>, directives |-> <<>>]
    /\ applied = 0
    /\ error = NoError
    /\ table = NoTable
    /\ queryType = {}
    /\ inputs = {}
    /\ resolvers = {}
    /\ stackMapping = {}
    /\ conditionInputs = {}
    /\ copy = NoCopy

MergeInit ==
    /\ NoCompilation
    /\ template = UndefinedNode
    /\ references = NotWalked
    /\ maps \in [1..3 -> MergeOperands]
    /\ calls = 0
    /\ NoSharedResults
    /\ NoAuthorization

\* mergeReferenceMaps(maps[i], maps[j]): the first argument is updated in place.
Merge(i, j) ==
    /\ calls < MaxMerges
    /\ maps' = [maps EXCEPT ![i] = mergeReferenceMaps(maps[i], maps[j])]
    /\ calls' = calls + 1
    /\ UNCHANGED <<keyVars, template, references, heap, results, mutations, authVars>>

MergeNext == \E i \in 1..3, j \in 1..3 : Merge(i, j)

MergeSpec == MergeInit /\ [][MergeNext]_vars

ReferenceInit ==
    /\ NoCompilation
    /\ template \in Templates(MaxDepth)
    /\ references = NotWalked
    /\ maps = <<>>
    /\ calls = 0
    /\ NoSharedResults
    /\ NoAuthorization

GetTemplateReferences ==
    /\ references = NotWalked
    /\ references' = getTemplateReferences(template)
    /\ UNCHANGED <<keyVars, template, maps, calls, heap, results, mutations, authVars>>

ReferenceNext == GetTemplateReferences

ReferenceSpec == ReferenceInit /\ [][ReferenceNext]_vars

\* A template getTemplateReferences returns for is walked twice, and the
\* caller then changes arrays of the results.
SharedInit ==
    /\ NoCompilation
    /\ NoAuthorization
    /\ template \in { t \in Templates(MaxSharedDepth) : ~getTemplateReferences(t).threw }
    /\ references = NotWalked
    /\ maps = <<>>
    /\ calls = 0
    /\ NoSharedResults

WalkAgain ==
    /\ Len(results) < 2
    /\ LET returned == getTemplateReferencesIn(heap, template)
       IN  /\ heap' = returned.heap
           /\ results' = Append(results, returned.refs)
    /\ UNCHANGED <<keyVars, template, references, maps, calls, mutations, authVars>>

\* The arrays of a result: the lists of its names and the paths in them.
ArraysOf(h, refs) ==
    { refs[name] : name \in DOMAIN refs }
    \cup UNION { { h[refs[name]].addresses[i] : i \in 1..Len(h[refs[name]].addresses) } :
                    name \in DOMAIN refs }

\* The caller pushes a segment onto a path of a result, or pops the last
\* path off a list of a result.
MutateResult(r, address) ==
    /\ Len(results) = 2
    /\ mutations < MaxMutations
    /\ address \in ArraysOf(heap, results[r])
    /\ heap' = [heap EXCEPT ![address] =
                    IF @.kind = "path" THEN PathCell(Append(@.strings, "pushed"))
                    ELSE ListCell(SubSeq(@.addresses, 1, Len(@.addresses) - 1))]
    /\ mutations' = mutations + 1
    /\ UNCHANGED <<keyVars, template, references, maps, calls, results, authVars>>

SharedNext ==
    \/ WalkAgain
    \/ \E r \in 1..2 : \E address \in 1..Len(heap) : MutateResult(r, address)

SharedSpec == SharedInit /\ [][SharedNext]_vars

(***************************************************************************)
(* A read resolver runs its authorization template on a request, one       *)
(* statement at a time.                                                    *)
(***************************************************************************)
AuthInit ==
    /\ NoCompilation
    /\ NoReferences
    /\ \E rules \in AuthRuleLists, passes \in 1..MaxPasses, protected \in BOOLEAN :
        /\ authRules = rules
        /\ mappingTemplate = ReadAuthorizationTemplate(rules, passes, protected)
    /\ request \in [identity : Identities, result : Results]
    /\ variables = NoVariables
    /\ pc = 1
    /\ authCondition = NoCondition
    /\ unauthorized = FALSE

\* The template is at a statement of the kind op.
At(op) == ~unauthorized /\ pc <= Len(mappingTemplate) /\ mappingTemplate[pc].op = op

\* The statement sets its variable to true if the condition holds.
SetTrueIf(condition) ==
    /\ variables' = IF condition THEN [variables EXCEPT ![mappingTemplate[pc].variable] = VtlTrue]
                     ELSE variables
    /\ pc' = pc + 1
    /\ UNCHANGED <<keyVars, referenceVars, authRules, request, mappingTemplate, authCondition, unauthorized>>

RunComment == At("comment") /\ SetTrueIf(FALSE)

\* #set($userGroups = $ctx.identity.claims.get("cognito:groups"))
RunSetUserGroups ==
    /\ At("setUserGroups")
    /\ variables' = [variables EXCEPT !["userGroups"] = request.identity.claims]
    /\ pc' = pc + 1
    /\ UNCHANGED <<keyVars, referenceVars, authRules, request, mappingTemplate, authCondition, unauthorized>>

\* #set($flag = $util.defaultIfNull($flag, false))
RunDefaultIfNull ==
    /\ At("defaultIfNull")
    /\ variables' = [variables EXCEPT ![mappingTemplate[pc].variable] = defaultIfNull(@, VtlFalse)]
    /\ pc' = pc + 1
    /\ UNCHANGED <<keyVars, referenceVars, authRules, request, mappingTemplate, authCondition, unauthorized>>

RunStaticGroups ==
    /\ At("staticGroups")
    /\ SetTrueIf(staticGroupsMatch(variables["userGroups"], mappingTemplate[pc].rule.groups))

RunDynamicGroups ==
    /\ At("dynamicGroups")
    /\ SetTrueIf(dynamicGroupsMatch(variables["userGroups"], request.result, mappingTemplate[pc].rule))

RunOwner ==
    /\ At("owner")
    /\ SetTrueIf(ownerMatch(request.identity, request.result, mappingTemplate[pc].rule))

RunIsNotAuthProtected == At("setTrue") /\ SetTrueIf(TRUE)

RunThrowIfUnauthorized ==
    /\ At("throwIfUnauthorized")
    /\ unauthorized' = throwIfUnauthorizedForReadOperations(variables)
    /\ pc' = pc + 1
    /\ UNCHANGED <<keyVars, referenceVars, authRules, request, mappingTemplate, variables, authCondition>>

AuthNext ==
    \/ RunComment
    \/ RunSetUserGroups
    \/ RunDefaultIfNull
    \/ RunStaticGroups
    \/ RunDynamicGroups
    \/ RunOwner
    \/ RunIsNotAuthProtected
    \/ RunThrowIfUnauthorized

AuthSpec == AuthInit /\ [][AuthNext]_vars

(***************************************************************************)
(* An update or delete resolver runs its authorization template on a       *)
(* request, one statement at a time; request.result is the item the write  *)
(* is aimed at.                                                            *)
(***************************************************************************)
WriteInit ==
    /\ NoCompilation
    /\ NoReferences
    /\ authRules \in AuthRuleLists
    /\ mappingTemplate = WriteAuthorizationTemplate(authRules)
    /\ request \in [identity : WriteIdentities, result : Results]
    /\ variables = NoWriteVariables
    /\ pc = 1
    /\ authCondition = NoCondition
    /\ unauthorized = FALSE

RunOwnerCondition ==
    /\ At("ownerCondition")
    /\ LET rule == mappingTemplate[pc].rule
           ownerAttribute == IF rule.ownerField # NoField THEN rule.ownerField ELSE DEFAULT_OWNER_FIELD
           identityField == IF rule.identityField # NoField THEN rule.identityField ELSE DEFAULT_IDENTITY_FIELD
       IN  authCondition' = ownerUpdateAndDeleteResolverRequestMappingTemplateSnippet(
                                authCondition, ownerAttribute, FieldOf(request.identity, identityField).text)
    /\ pc' = pc + 1
    /\ UNCHANGED <<keyVars, referenceVars, authRules, request, mappingTemplate, variables, unauthorized>>

RunGroupCondition ==
    /\ At("groupCondition")
    /\ LET rule == mappingTemplate[pc].rule
           groupsAttribute == IF rule.groupsField # NoField THEN rule.groupsField ELSE DEFAULT_GROUPS_FIELD
       IN  authCondition' = dynamicGroupUpdateAndDeleteResolverRequestMappingTemplateSnippet(
                                authCondition, groupsAttribute, variables["userGroups"])
    /\ pc' = pc + 1
    /\ UNCHANGED <<keyVars, referenceVars, authRules, request, mappingTemplate, variables, unauthorized>>

RunStaticGroupCheck ==
    /\ At("staticGroupCheck")
    /\ LET check == handleStaticGroupAuthorizationCheck(variables["isAuthorized"], authCondition)
       IN  /\ authCondition' = check.condition
           /\ unauthorized' = check.unauthorized
    /\ pc' = pc + 1
    /\ UNCHANGED <<keyVars, referenceVars, authRules, request, mappingTemplate, variables>>

WriteNext ==
    \/ RunComment
    \/ RunSetUserGroups
    \/ RunDefaultIfNull
    \/ RunStaticGroups
    \/ RunOwnerCondition
    \/ RunGroupCondition
    \/ RunStaticGroupCheck

WriteSpec == WriteInit /\ [][WriteNext]_vars

(***************************************************************************)
(* Properties of the index structures.                                     *)
(***************************************************************************)
HashKey(name) == [AttributeName |-> name, KeyType |-> "HASH"]
RangeKey(name) == [AttributeName |-> name, KeyType |-> "RANGE"]

\* The step applies the next directive of the type and object returns.
Applies == applied' = applied + 1

\* The key and the attribute definitions are those of the table @model creates.
DefaultKeyed(t) ==
    /\ t.KeySchema = << HashKey("id") >>
    /\ t.AttributeDefinitions = << [AttributeName |-> "id", AttributeType |-> "S"] >>

\* The DynamoDB type the schema language gives a key field of this base type.
BaseScalarType(base) ==
    CASE base \in {"String", "ID", "AWSDateTime"} -> "S"
      [] base \in EnumTypeNames -> "S"
      [] base \in {"Int", "Float"} -> "N"
      [] OTHER -> "none"

DeclaredBase(def, fieldName) ==
    LET decl == { i \in 1..Len(def.fields) : def.fields[i].name = fieldName }
    IN  def.fields[CHOOSE i \in decl : TRUE].type.base

RECURSIVE HashJoined(_)
HashJoined(names) ==
    IF Len(names) = 1 THEN names[1]
    ELSE HashJoined(SubSeq(names, 1, Len(names) - 1)) \o "#" \o names[Len(names)]

C3_RangeKeyNamedInCamelCase ==
    (/\ applied >= 1
     /\ definition.directives[applied].name = NoName
     /\ definition.directives[applied].fields = <<"email", "kind", "date">>)
    => /\ RangeKey("kindDate") \in Range(table.KeySchema)
       /\ [AttributeName |-> "kindDate", AttributeType |-> "S"] \in Range(table.AttributeDefinitions)

\* The index of a secondary @key is the one new, last entry of the list.
AppendedIndex(before, after, directive) ==
    /\ Len(after) = Len(before) + 1
    /\ SubSeq(after, 1, Len(before)) = before
    /\ after[Len(after)].IndexName = directive.name
    /\ after[Len(after)].KeySchema[1] = HashKey(directive.fields[1])

\* The HASH field of the primary @key the type declares, id if it declares none.
DeclaredPartitionKey(def) ==
    LET primaries == { i \in 1..Len(def.directives) : def.directives[i].name = NoName }
    IN  IF primaries = {} THEN "id"
        ELSE def.directives[CHOOSE i \in primaries : \A j \in primaries : i <= j].fields[1]

\* The index of directive d went to the local list if local, to the global list if not.
ClassifiedAs(local, d) ==
    IF local
    THEN /\ AppendedIndex(table.LocalSecondaryIndexes, table'.LocalSecondaryIndexes, d)
         /\ table'.GlobalSecondaryIndexes = table.GlobalSecondaryIndexes
    ELSE /\ AppendedIndex(table.GlobalSecondaryIndexes, table'.GlobalSecondaryIndexes, d)
         /\ table'.LocalSecondaryIndexes = table.LocalSecondaryIndexes

PrimaryDeclaredLater == \E j \in (applied + 2)..Len(definition.directives) : definition.directives[j].name = NoName

C6_NoDuplicateAttributeDefinition ==
    \A i, j \in 1..Len(table.AttributeDefinitions) :
        i # j => table.AttributeDefinitions[i].AttributeName # table.AttributeDefinitions[j].AttributeName

KeySchemaNames(ks) == { ks[i].AttributeName : i \in 1..Len(ks) }

ReferencedAttributeNames(t) ==
    KeySchemaNames(t.KeySchema) \cup
    UNION { KeySchemaNames(t.GlobalSecondaryIndexes[i].KeySchema) : i \in 1..Len(t.GlobalSecondaryIndexes) } \cup
    UNION { KeySchemaNames(t.LocalSecondaryIndexes[i].KeySchema) : i \in 1..Len(t.LocalSecondaryIndexes) }

\* C7: every attribute name that the primary KeySchema or the KeySchema of a
\* Global or Local secondary index references has an AttributeDefinitions entry.
C7_EveryKeyAttributeIsDefined ==
    \A name \in ReferencedAttributeNames(table) :
        \E i \in 1..Len(table.AttributeDefinitions) : table.AttributeDefinitions[i].AttributeName = name

(***************************************************************************)
(* Properties of validation.                                               *)
(***************************************************************************)
\* The i-th directive of the type breaks none of the rules of @key.
ValidDirective(def, i) ==
    LET d == def.directives[i]
    IN  /\ \A j \in 1..Len(def.directives) : j # i => def.directives[j].name # d.name
        /\ d.name = NoName => d.queryField = NoQueryField
        /\ \A k \in 1..Len(d.fields) :
            \E n \in 1..Len(def.fields) :
                /\ def.fields[n].name = d.fields[k]
                /\ def.fields[n].type.nonNull
                /\ BaseScalarType(def.fields[n].type.base) \in {"S", "N", "B"}

ValidationErrorKinds ==
    { "only one primary @key", "only one @key with the name", "queryField on the primary @key",
      "non-existant field", "must reference non-null fields", "cannot reference non-scalar field" }

\* C8: a directive that fails validation raises its error before it mutates
\* anything: the step that raises the error leaves the table, the Query type,
\* the input types and the resolvers as they were, and only a directive that
\* breaks no rule changes the Context.
C8_ValidationPrecedesMutation ==
    [][ /\ error' # error =>
            /\ error'.kind \in ValidationErrorKinds
            /\ ~ValidDirective(definition, applied + 1)
            /\ table' = table
            /\ queryType' = queryType
            /\ inputs' = inputs
            /\ resolvers' = resolvers
            /\ stackMapping' = stackMapping
            /\ conditionInputs' = conditionInputs
        /\ (ctx' # ctx \/ applied' # applied) =>
            /\ error' = NoError
            /\ ValidDirective(definition, applied + 1)
      ]_vars

C8_Witness ==
    /\ applied = 1
    /\ error.kind = "queryField on the primary @key"
    /\ definition.directives[1].name # NoName
    /\ Len(table.GlobalSecondaryIndexes) + Len(table.LocalSecondaryIndexes) = 1
    /\ table.KeySchema = << HashKey("id") >>

\* Another directive of the type has the name of the i-th one (both unnamed counts).
Conflicting(def, i) == \E j \in 1..Len(def.directives) : j # i /\ def.directives[j].name = def.directives[i].name

\* C9: of two @key directives of a type that are both unnamed or have the
\* same name the first is never applied: applying it is rejected, with an
\* error naming the type for unnamed keys and naming the type and the name
\* for named keys.
C9_KeyNamesAreUnique ==
    \A i \in 1..Len(definition.directives) :
        Conflicting(definition, i) =>
            /\ applied < i
            /\ (applied = i - 1 /\ error # NoError) =>
                /\ error.type = definition.name
                /\ IF definition.directives[i].name = NoName
                   THEN error.kind = "only one primary @key"
                   ELSE /\ error.kind = "only one @key with the name"
                        /\ error.key = definition.directives[i].name

C9_Witness ==
    /\ applied = 0
    /\ Len(definition.directives) = 2
    /\ definition.directives[1].name = "byA"
    /\ definition.directives[2].name = "byA"
    /\ error.kind = "only one @key with the name"
    /\ error.key = "byA"
    /\ error.type = TypeName

\* What is wrong with a field name as a key field of the type.
FieldViolation(def, fieldName) ==
    IF \A n \in 1..Len(def.fields) : def.fields[n].name # fieldName THEN "non-existant field"
    ELSE IF \E n \in 1..Len(def.fields) : def.fields[n].name = fieldName /\ ~def.fields[n].type.nonNull
    THEN "must reference non-null fields"
    ELSE IF BaseScalarType(DeclaredBase(def, fieldName)) \notin {"S", "N", "B"}
    THEN "cannot reference non-scalar field"
    ELSE "none"

\* C10: a @key that lists a field which does not exist, is nullable or is not
\* of a base type mapping to S, N or B (an enum counting as S) is rejected,
\* and the error is the one of that violation and carries the name of the
\* offending field and the name of the type.
C10_FieldErrorsNameTheField ==
    \A i \in 1..Len(definition.directives) :
        LET d == definition.directives[i]
            offending == { k \in 1..Len(d.fields) : FieldViolation(definition, d.fields[k]) # "none" }
        IN  offending # {} =>
                /\ applied < i
                /\ (/\ applied = i - 1
                    /\ error.kind \in { "non-existant field", "must reference non-null fields",
                                        "cannot reference non-scalar field" })
                   => LET first == CHOOSE k \in offending : \A m \in offending : k <= m
                      IN  /\ error.kind = FieldViolation(definition, d.fields[first])
                          /\ error.field = d.fields[first]
                          /\ error.type = definition.name

(***************************************************************************)
(* Properties of the contract of the transformer.                          *)
(***************************************************************************)
\* C11: applying a @key whose fields list is empty (and that breaks no other
\* rule) fails with the directive error saying that @key directives must
\* include at least one field, and leaves the Context as it was.
C11_EmptyFieldsListIsDirectiveError ==
    [][ (/\ Running
         /\ table.exists
         /\ Len(definition.directives[applied + 1].fields) = 0
         /\ ValidDirective(definition, applied + 1))
        => /\ error'.kind = "@key directives must include at least one field"
           /\ applied' = applied
           /\ ctx' = ctx
      ]_vars

\* C12: a primary or secondary @key applied to a type whose table resource is
\* not in the Context fails, and the failing step changes nothing of the
\* Context: no query field, input type, resolver, stack mapping or condition
\* input is added or rewritten.
C12_MissingTableFailsBeforeMutation ==
    [][ ~table.exists
        => /\ error = NoError
           /\ error' # NoError
           /\ applied' = applied
           /\ table' = table
           /\ queryType' = queryType
           /\ inputs' = inputs
           /\ resolvers' = resolvers
           /\ stackMapping' = stackMapping
           /\ conditionInputs' = conditionInputs
      ]_vars

C12_Witness ==
    /\ ~table.exists
    /\ applied = 0
    /\ error.kind = "may only be added to object definitions annotated with @model"
    /\ definition.directives[1].name # NoName
    /\ definition.directives[1].queryField # NoQueryField
    /\ Len(definition.directives[1].fields) = 2
    /\ queryType = <<>>
    /\ \A id \in ResolverIDs : ~resolvers[id].exists
    /\ stackMapping = {}
    /\ conditionInputs = {}

(***************************************************************************)
(* Properties of the API surface: Query fields and input types.            *)
(***************************************************************************)
GetFieldName == "get" \o TypeName
ListFieldName == "list" \o TypeName \o "s"

HasResolver(operation) == resolvers[operation \o TypeName \o "Resolver"].exists

\* The argument of a key field: its name, typed by the base scalar of the field.
ScalarArgument(def, fieldName, required) ==
    [name |-> fieldName, type |-> [base |-> DeclaredBase(def, fieldName), nonNull |-> required]]

\* The optional argument of a key field typed by the condition input of its base scalar.
ConditionArgument(def, fieldName) ==
    [name |-> fieldName,
     type |-> [base |-> "Model" \o DeclaredBase(def, fieldName) \o "KeyConditionInput", nonNull |-> FALSE]]

\* The get field takes exactly the key fields of d, in key order, each non-null.
GetFieldTakesKey(d) ==
    \A n \in 1..Len(queryType) :
        queryType[n].name = GetFieldName =>
            /\ queryType'[n].name = GetFieldName
            /\ queryType'[n].arguments =
                [k \in 1..Len(d.fields) |-> ScalarArgument(definition, d.fields[k], TRUE)]

\* C13 as stated: a primary @key applied to a type with a get resolver makes
\* the arguments of the get field exactly the key fields, in key order, each
\* non-null and of its base scalar, and leaves every other Query field
\* unchanged; a secondary @key never changes the get field.
C13_OnlyTheGetFieldChanges ==
    [][ Applies
        => LET d == definition.directives[applied + 1]
           IN  /\ (d.name = NoName /\ HasResolver("Get")) =>
                    /\ Len(queryType') = Len(queryType)
                    /\ GetFieldTakesKey(d)
                    /\ \A n \in 1..Len(queryType) :
                            queryType[n].name # GetFieldName => queryType'[n] = queryType[n]
               /\ d.name # NoName =>
                    \A n \in 1..Len(queryType) :
                        queryType[n].name = GetFieldName => queryType'[n] = queryType[n]
      ]_vars

\* C13 amended: a primary @key applied to a type with a get resolver makes
\* the arguments of the get field exactly the key fields, in key order, each
\* non-null and of its base scalar; the previous arguments are gone, the list
\* field of the type keeps its place and name (its arguments are rewritten by
\* the same directive), and every Query field other than these two is
\* unchanged; a secondary @key never changes the get field.
C13_GetFieldTakesThePrimaryKey ==
    [][ Applies
        => LET d == definition.directives[applied + 1]
           IN  /\ (d.name = NoName /\ HasResolver("Get")) =>
                    /\ Len(queryType') = Len(queryType)
                    /\ GetFieldTakesKey(d)
                    /\ \A n \in 1..Len(queryType) :
                            /\ queryType[n].name = ListFieldName => queryType'[n].name = ListFieldName
                            /\ queryType[n].name \notin {GetFieldName, ListFieldName}
                                    => queryType'[n] = queryType[n]
               /\ d.name # NoName =>
                    \A n \in 1..Len(queryType) :
                        queryType[n].name = GetFieldName => queryType'[n] = queryType[n]
      ]_vars

C13_Witness ==
    /\ applied = 2
    /\ error = NoError
    /\ definition.directives[1].name # NoName
    /\ definition.directives[1].queryField # NoQueryField
    /\ definition.directives[2].name = NoName
    /\ definition.directives[2].fields = <<"email", "kind">>
    /\ \E n \in 1..Len(queryType) :
        /\ queryType[n].name = GetFieldName
        /\ queryType[n].arguments =
            << [name |-> "email", type |-> NonNullType("String")],
               [name |-> "kind", type |-> NonNullType("Int")] >>
    /\ \E n \in 1..Len(queryType) : queryType[n].name = definition.directives[1].queryField

\* The arguments of the list field are those of the key of d, the fields
\* before the last required or not, followed by the arguments it had.
ListFieldTakesKey(d, required) ==
    \A n \in 1..Len(queryType) :
        queryType[n].name = ListFieldName =>
            /\ queryType'[n].name = ListFieldName
            /\ Len(queryType'[n].arguments) = Len(d.fields) + Len(queryType[n].arguments)
            /\ SubSeq(queryType'[n].arguments, Len(d.fields) + 1, Len(queryType'[n].arguments))
                    = queryType[n].arguments
            /\ \A k \in 1..(Len(d.fields) - 1) :
                    queryType'[n].arguments[k] = ScalarArgument(definition, d.fields[k], required)
            /\ LET last == queryType'[n].arguments[Len(d.fields)]
               IN  IF Len(d.fields) >= 2
                   THEN last = ConditionArgument(definition, d.fields[Len(d.fields)])
                   ELSE /\ last.name = d.fields[1]
                        /\ last.type.base = DeclaredBase(definition, d.fields[1])

\* C14 as stated: a primary @key applied to a type with a list resolver puts
\* the key arguments, in key order, before the arguments the list field had;
\* every key field but the last is a required (non-null) argument of its base
\* scalar, the last an optional condition input named after its base scalar
\* for a key of 2 or more fields and a plain scalar for a key of 1 field.
C14_ListFieldRequiresKeyPrefix ==
    [][ (/\ Applies
         /\ definition.directives[applied + 1].name = NoName
         /\ HasResolver("List"))
        => ListFieldTakesKey(definition.directives[applied + 1], TRUE)
      ]_vars

\* C14 amended: as stated, except that every key field but the last is an
\* optional (nullable) argument of its base scalar, and the plain scalar
\* argument of a key of 1 field is optional as well.
C14_ListFieldTakesOptionalKeyArguments ==
    [][ (/\ Applies
         /\ definition.directives[applied + 1].name = NoName
         /\ HasResolver("List"))
        => LET d == definition.directives[applied + 1]
           IN  /\ ListFieldTakesKey(d, FALSE)
               /\ \A n \in 1..Len(queryType) :
                    queryType[n].name = ListFieldName
                        => ~queryType'[n].arguments[Len(d.fields)].type.nonNull
      ]_vars

C14_Witness ==
    /\ applied = 1
    /\ error = NoError
    /\ definition.directives[1].name = NoName
    /\ definition.directives[1].fields = <<"email", "kind", "date">>
    /\ \E n \in 1..Len(queryType) :
        /\ queryType[n].name = ListFieldName
        /\ Len(queryType[n].arguments) = 6
        /\ queryType[n].arguments[1] = [name |-> "email", type |-> NamedType("String")]
        /\ queryType[n].arguments[2] = [name |-> "kind", type |-> NamedType("Int")]
        /\ queryType[n].arguments[3] =
            [name |-> "date", type |-> NamedType("ModelAWSDateTimeKeyConditionInput")]
        /\ queryType[n].arguments[4].name = "filter"

\* The resolver resource of a field of the Query type.
QueryResolver(rs, fieldName) == rs["Query" \o fieldName \o "Resolver"]

\* C15: a named @key with a queryField appends exactly one field of that
\* name to the Query type, whose leading arguments are the key fields (all but
\* the last required scalars, the last a condition input for 2 or more
\* fields), and stores exactly one resolver resource, that of (Query,
\* queryField), which queries the index named by the directive and is mapped
\* to the stack of the type; a named @key without queryField and a primary
\* @key create neither the field nor the resolver.
C15_QueryFieldAndResolverOfNamedKey ==
    [][ Applies
        => LET d == definition.directives[applied + 1]
               n == Len(d.fields)
           IN  IF d.name # NoName /\ d.queryField # NoQueryField
               THEN /\ Len(queryType') = Len(queryType) + 1
                    /\ SubSeq(queryType', 1, Len(queryType)) = queryType
                    /\ LET field == queryType'[Len(queryType')]
                       IN  /\ field.name = d.queryField
                           /\ Len(field.arguments) >= n
                           /\ \A k \in 1..(n - 1) :
                                field.arguments[k] = ScalarArgument(definition, d.fields[k], TRUE)
                           /\ field.arguments[n] =
                                IF n >= 2 THEN ConditionArgument(definition, d.fields[n])
                                ELSE ScalarArgument(definition, d.fields[n], TRUE)
                           /\ \A k \in (n + 1)..Len(field.arguments) :
                                field.arguments[k].name \notin Range(d.fields)
                    /\ QueryResolver(resolvers', d.queryField).exists
                    /\ QueryResolver(resolvers', d.queryField).FieldName = d.queryField
                    /\ \E k \in 1..Len(QueryResolver(resolvers', d.queryField).RequestMappingTemplate) :
                        LET part == QueryResolver(resolvers', d.queryField).RequestMappingTemplate[k]
                        IN  part.block = "QueryRequest" /\ part.index = d.name
                    /\ \A id \in DOMAIN resolvers :
                        id # "Query" \o d.queryField \o "Resolver" => resolvers'[id] = resolvers[id]
                    /\ \E m \in stackMapping' :
                        /\ m.stack = definition.name
                        /\ m.pattern = "^Query" \o d.queryField \o "Resolver$"
                    /\ stackMapping' \ stackMapping \subseteq
                        { [stack |-> definition.name, pattern |-> "^Query" \o d.queryField \o "Resolver$"] }
               ELSE /\ Len(queryType') = Len(queryType)
                    /\ \A k \in 1..Len(queryType) : queryType'[k].name = queryType[k].name
                    /\ \A q \in QueryFieldNames : QueryResolver(resolvers', q) = QueryResolver(resolvers, q)
                    /\ stackMapping' = stackMapping
      ]_vars

C15_Witness ==
    /\ applied = 1
    /\ error = NoError
    /\ definition.directives[1] = [name |-> "byA", fields |-> <<"email", "kind">>, queryField |-> "queryA"]
    /\ queryType[Len(queryType)].name = "queryA"
    /\ queryType[Len(queryType)].arguments[1] = [name |-> "email", type |-> NonNullType("String")]
    /\ queryType[Len(queryType)].arguments[2] =
        [name |-> "kind", type |-> NamedType("ModelIntKeyConditionInput")]
    /\ resolvers["QueryqueryAResolver"].exists
    /\ stackMapping = { [stack |-> "Test", pattern |-> "^QueryqueryAResolver$"] }

\* The declared field of the type is non-null.
DeclaredNonNull(def, fieldName) ==
    \E n \in 1..Len(def.fields) : def.fields[n].name = fieldName /\ def.fields[n].type.nonNull

InputFields(ins, operation) == ins[operation \o TypeName \o "Input"].fields
HasInput(operation) == inputs[operation \o TypeName \o "Input"].exists

\* C16: after a primary @key, in the create input every key field is
\* non-null and every other field has the nullability of the field of the
\* model type; in the update input every key field is non-null and every
\* other field nullable; the fields of the delete input are exactly the key
\* fields, in key order, each non-null.  A secondary @key leaves the three
\* input types unchanged.
C16_InputTypesFollowThePrimaryKey ==
    [][ Applies
        => LET d == definition.directives[applied + 1]
               keys == Range(d.fields)
               create == InputFields(inputs', "Create")
               update == InputFields(inputs', "Update")
           IN  IF d.name = NoName
               THEN /\ HasInput("Create") =>
                        /\ Len(create) = Len(InputFields(inputs, "Create"))
                        /\ \A n \in 1..Len(create) :
                            /\ create[n].name = InputFields(inputs, "Create")[n].name
                            /\ create[n].type.base = InputFields(inputs, "Create")[n].type.base
                            /\ create[n].type.nonNull =
                                IF create[n].name \in keys THEN TRUE
                                ELSE DeclaredNonNull(definition, create[n].name)
                    /\ HasInput("Update") =>
                        /\ Len(update) = Len(InputFields(inputs, "Update"))
                        /\ \A n \in 1..Len(update) :
                            /\ update[n].name = InputFields(inputs, "Update")[n].name
                            /\ update[n].type.base = InputFields(inputs, "Update")[n].type.base
                            /\ update[n].type.nonNull = (update[n].name \in keys)
                    /\ HasInput("Delete") =>
                        InputFields(inputs', "Delete") =
                            [k \in 1..Len(d.fields) |-> ScalarArgument(definition, d.fields[k], TRUE)]
                    /\ \A name \in DOMAIN inputs : inputs'[name].exists = inputs[name].exists
               ELSE inputs' = inputs
      ]_vars

C16_Witness ==
    /\ applied = 1
    /\ error = NoError
    /\ definition.directives[1].name = NoName
    /\ definition.directives[1].fields = <<"email", "kind">>
    /\ InputFields(inputs, "Create") =
        << [name |-> "id", type |-> NonNullType("ID")],
           [name |-> "email", type |-> NonNullType("String")],
           [name |-> "kind", type |-> NonNullType("Int")],
           [name |-> "date", type |-> NonNullType("AWSDateTime")] >>
    /\ InputFields(inputs, "Update") =
        << [name |-> "id", type |-> NamedType("ID")],
           [name |-> "email", type |-> NonNullType("String")],
           [name |-> "kind", type |-> NonNullType("Int")],
           [name |-> "date", type |-> NamedType("AWSDateTime")] >>
    /\ InputFields(inputs, "Delete") =
        << [name |-> "email", type |-> NonNullType("String")],
           [name |-> "kind", type |-> NonNullType("Int")] >>

(***************************************************************************)
(* Properties of the reference maps.                                       *)
(***************************************************************************)
\* The list a reference map holds for a name, empty if it holds none.
PathsFor(map, name) == IF name \in DOMAIN map THEN map[name] ELSE <<>>

Concatenates(result, a, b) ==
    /\ DOMAIN result = DOMAIN a \cup DOMAIN b
    /\ \A name \in DOMAIN result : result[name] = PathsFor(a, name) \o PathsFor(b, name)

RECURSIVE NodeAt(_, _)
NodeAt(node, path) ==
    IF path = <<>> THEN node
    ELSE NodeAt(Property(node, Head(path)), Tail(path))

\* The paths of all the nodes of a template.
RECURSIVE PathsOf(_)
PathsOf(node) ==
    {<<>>} \cup UNION { { << node.entries[i].key >> \o p : p \in PathsOf(node.entries[i].value) } :
                        i \in 1..Len(node.entries) }

\* The node is { "Ref": name } or { "Fn::GetAtt": [name, ...] }.
RefersTo(node, name) ==
    /\ node.type = "object"
    /\ \/ \E i \in 1..Len(node.entries) :
            node.entries[i] = Entry("Ref", StringNode(name))
       \/ \E i \in 1..Len(node.entries) :
            /\ node.entries[i].key = "Fn::GetAtt"
            /\ node.entries[i].value.type = "array"
            /\ Len(node.entries[i].value.entries) > 0
            /\ node.entries[i].value.entries[1].value = StringNode(name)

Occurrences(list, path) == Cardinality({ i \in 1..Len(list) : list[i] = path })

\* C18: the map getTemplateReferences returns lists a path under a name
\* exactly if the node at that path is a Ref to the name or a Fn::GetAtt
\* of the name, and lists it once.
C18_ReferencesAreTheReferenceNodes ==
    (references # NotWalked /\ ~references.threw) =>
        /\ \A name \in DOMAIN references.refs :
            \A i \in 1..Len(references.refs[name]) : references.refs[name][i] \in PathsOf(template)
        /\ \A name \in DOMAIN references.refs \cup {"Foo", "Bar"} : \A path \in PathsOf(template) :
            Occurrences(PathsFor(references.refs, name), path) =
                IF RefersTo(NodeAt(template, path), name) THEN 1 ELSE 0

\* C18: the walk of a template whose Resources.Foo.Properties.Bar is a Ref
\* to Foo returned Foo with that one path.
C18_Witness ==
    /\ template =
        ObjectNode(<< Entry("Resources", ObjectNode(<< Entry("Foo", ObjectNode(<< Entry("Properties",
            ObjectNode(<< Entry("Bar", RefNode("Foo")) >>)) >>)) >>)) >>)
    /\ references = Returned([name \in {"Foo"} |-> << << "Resources", "Foo", "Properties", "Bar" >> >>])

\* C26: getTemplateReferences returns a map for every template, and the
\* empty map for a template without reference nodes.
C26_WalkReturnsForEveryTemplate ==
    references # NotWalked =>
        /\ ~references.threw
        /\ (\A path \in PathsOf(template), name \in {"Foo", "Bar"} :
                ~RefersTo(NodeAt(template, path), name))
            => references.refs = EmptyReferenceMap

\* The reference map of a result, its arrays read from the heap.
ReadResult(h, refs) ==
    [name \in DOMAIN refs |->
        [i \in 1..Len(h[refs[name]].addresses) |-> h[h[refs[name]].addresses[i]].strings]]

\* C27: a walk leaves the template as it is; two walks of a template return
\* equal maps, which are the map of the template and have no array in
\* common; and a change the caller makes to an array of one result leaves
\* the other result and the template as they are.
C27_WalksShareNoState ==
    /\ [][template' = template]_vars
    /\ [](Len(results) = 2 /\ mutations = 0 =>
            /\ ReadResult(heap, results[1]) = getTemplateReferences(template).refs
            /\ ReadResult(heap, results[2]) = ReadResult(heap, results[1])
            /\ ArraysOf(heap, results[1]) \cap ArraysOf(heap, results[2]) = {})
    /\ [][mutations' = mutations + 1 =>
            \E r \in 1..2 : ReadResult(heap', results[r]) = ReadResult(heap, results[r])]_vars

\* C27: a template with references was walked twice and a path of the first
\* result was changed: the second result is still the map of the template.
C27_Witness ==
    /\ Len(results) = 2
    /\ mutations = 1
    /\ DOMAIN results[1] # {}
    /\ ReadResult(heap, results[1]) # getTemplateReferences(template).refs
    /\ ReadResult(heap, results[2]) = getTemplateReferences(template).refs

(***************************************************************************)
(* Properties of the read authorization template.                          *)
(***************************************************************************)
Finished == pc > Len(mappingTemplate)

\* C19: the gate of a read terminates the request as unauthorized exactly
\* if none of the four flags is true, where a flag that was never set is not
\* true; nothing else terminates the request.
C19_GateThrowsIffNoFlagIsTrue ==
    /\ [][At("throwIfUnauthorized") =>
            (unauthorized' <=> \A flag \in FlagVariables : variables[flag] # VtlTrue)]_vars
    /\ [](unauthorized => Finished /\ \A flag \in FlagVariables : variables[flag] # VtlTrue)

\* C19: a request was terminated although its type has owner rules, none of
\* which matched: the owner flag is false and the flags of the kinds without
\* rules were never set.
C19_Witness ==
    /\ unauthorized
    /\ variables[IsOwnerAuthorizedVariable] = VtlFalse
    /\ variables[IsStaticGroupAuthorizedVariable] = VtlNull
    /\ variables[IsDynamicGroupAuthorizedVariable] = VtlNull
    /\ variables[IsNotAuthProtectedVariable] = VtlNull

KindFlagVariables ==
    { IsStaticGroupAuthorizedVariable, IsDynamicGroupAuthorizedVariable, IsOwnerAuthorizedVariable }

\* The rules of the kind a flag stands for, and whether the check of one of
\* them succeeds on the request.
RulesOf(flag) ==
    CASE flag = IsStaticGroupAuthorizedVariable -> getStaticGroupRules(authRules)
      [] flag = IsDynamicGroupAuthorizedVariable -> getDynamicGroupRules(authRules)
      [] flag = IsOwnerAuthorizedVariable -> getOwnerRules(authRules)

Matched(flag, rule) ==
    CASE flag = IsStaticGroupAuthorizedVariable ->
            staticGroupsMatch(request.identity.claims, NonEmptyNames(rule.groups))
      [] flag = IsDynamicGroupAuthorizedVariable ->
            dynamicGroupsMatch(variables["userGroups"], request.result, rule)
      [] flag = IsOwnerAuthorizedVariable ->
            ownerMatch(request.identity, request.result, rule)

SomeRuleMatched(flag) == \E i \in 1..Len(RulesOf(flag)) : Matched(flag, RulesOf(flag)[i])

\* C20: while the template runs, a flag of a kind goes from unset to false
\* and from unset or false to true and never changes otherwise, so it is
\* never reset; when the template has run, the flag of a kind with rules is
\* true exactly if one of the rules of the kind matched.
C20_FlagsAreOnlyRaised ==
    /\ [][\A flag \in KindFlagVariables :
            \/ variables'[flag] = variables[flag]
            \/ variables[flag] = VtlNull /\ variables'[flag] = VtlFalse
            \/ variables[flag] \in {VtlNull, VtlFalse} /\ variables'[flag] = VtlTrue]_vars
    /\ [](Finished => \A flag \in KindFlagVariables :
            variables[flag] =
                IF Len(RulesOf(flag)) = 0 THEN VtlNull
                ELSE IF SomeRuleMatched(flag) THEN VtlTrue ELSE VtlFalse)

\* C20: the blocks were run twice over two owner rules of which the first
\* matches and the second does not, and the owner flag is true at the end.
C20_Witness ==
    /\ Finished
    /\ Len(authRules) = 2
    /\ Len(getOwnerRules(authRules)) = 2
    /\ Matched(IsOwnerAuthorizedVariable, authRules[1])
    /\ ~Matched(IsOwnerAuthorizedVariable, authRules[2])
    /\ Cardinality({ i \in 1..Len(mappingTemplate) :
            mappingTemplate[i] = Statement("defaultIfNull", IsOwnerAuthorizedVariable, NoRule) }) = 2
    /\ variables[IsOwnerAuthorizedVariable] = VtlTrue

(***************************************************************************)
(* Properties of the resolver templates.                                   *)
(***************************************************************************)
RequestTemplate(rs, operation) == rs[operation \o TypeName \o "Resolver"].RequestMappingTemplate

\* The interpolations of the fields under a prefix, joined by '#'.
RECURSIVE HashJoinedValues(_, _)
HashJoinedValues(prefix, names) ==
    IF Len(names) = 1 THEN "${" \o prefix \o "." \o names[1] \o "}"
    ELSE "${" \o prefix \o "." \o names[1] \o "}#" \o HashJoinedValues(prefix, Tail(names))

\* The part is a key-setting block for the fields that reads them under the prefix.
SetsKeyFrom(part, fields, prefix) ==
    /\ part.block = "Set the primary @key"
    /\ Len(part.modelObjectKey) >= 1
    /\ part.modelObjectKey[1].key = fields[1]
    /\ part.modelObjectKey[1].value = "$util.dynamodb.toDynamoDB($" \o prefix \o "." \o fields[1] \o ")"
    /\ Len(fields) > 2 =>
        /\ Len(part.modelObjectKey) = 2
        /\ part.modelObjectKey[2].key = HashJoined(Tail(fields))
        /\ part.modelObjectKey[2].value =
            "$util.dynamodb.toDynamoDB(\"" \o HashJoinedValues(prefix, Tail(fields)) \o "\")"

\* The block of a mutation writes the '#'-joined range key into the input
\* exactly if the key has 3 or more fields.
WritesRangeKey(part, fields) ==
    IF Len(fields) > 2
    THEN part.cmds = << "$util.qr($ctx.args.input.put(\"" \o HashJoined(Tail(fields)) \o "\",\"" \o
                        HashJoinedValues("ctx.args.input", Tail(fields)) \o "\"))" >>
    ELSE part.cmds = << "" >>

\* C24: applying a primary @key puts a key-setting block in front of the
\* request template of each of the existing get, create, update and delete
\* resolvers and a query-expression block in front of that of the list
\* resolver, the previous template staying intact behind it; the block reads
\* the key from ctx.args for get and from ctx.args.input for the mutations,
\* and for a mutation with 3 or more key fields writes the '#'-joined range
\* key into the input; resolvers that do not exist are not created, and a
\* secondary @key changes none of the five templates.
C24_KeyBlockPrecedesRequestTemplate ==
    [][ Applies
        => LET d == definition.directives[applied + 1]
           IN  IF d.name = NoName
               THEN /\ \A op \in ModelOperations :
                        IF HasResolver(op)
                        THEN /\ Len(RequestTemplate(resolvers', op)) = Len(RequestTemplate(resolvers, op)) + 1
                             /\ Tail(RequestTemplate(resolvers', op)) = RequestTemplate(resolvers, op)
                        ELSE resolvers'[op \o TypeName \o "Resolver"] = resolvers[op \o TypeName \o "Resolver"]
                    /\ HasResolver("Get") =>
                        /\ SetsKeyFrom(Head(RequestTemplate(resolvers', "Get")), d.fields, "ctx.args")
                        /\ Head(RequestTemplate(resolvers', "Get")).cmds = <<>>
                    /\ \A op \in ModelMutationOperations : HasResolver(op) =>
                        /\ SetsKeyFrom(Head(RequestTemplate(resolvers', op)), d.fields, "ctx.args.input")
                        /\ WritesRangeKey(Head(RequestTemplate(resolvers', op)), d.fields)
                    /\ HasResolver("List") =>
                        /\ Head(RequestTemplate(resolvers', "List")).block = "Set query expression for @key"
                        /\ Head(RequestTemplate(resolvers', "List")).keys = d.fields
               ELSE \A op \in ModelOperations :
                        resolvers'[op \o TypeName \o "Resolver"] = resolvers[op \o TypeName \o "Resolver"]
      ]_vars

\* C24: a primary @key on three fields was applied to a type with all the
\* resolvers of @model: the create resolver starts with the key block, which
\* writes kind#date into the input, and ends with the template of @model.
C24_Witness ==
    /\ applied = 1
    /\ error = NoError
    /\ definition.directives[1] = [name |-> NoName, fields |-> <<"email", "kind", "date">>, queryField |-> NoQueryField]
    /\ Len(RequestTemplate(resolvers, "Create")) = 2
    /\ RequestTemplate(resolvers, "Create")[1].cmds =
        << "$util.qr($ctx.args.input.put(\"kind#date\",\"${ctx.args.input.kind}#${ctx.args.input.date}\"))" >>
    /\ RequestTemplate(resolvers, "Create")[2] = TemplateText("Create request of @model")
    /\ RequestTemplate(resolvers, "Get")[1].modelObjectKey[1].value = "$util.dynamodb.toDynamoDB($ctx.args.email)"

(***************************************************************************)
(* Properties of the key condition inputs.                                 *)
(***************************************************************************)
\* The name of the condition input a key registers: that of String for a key
\* of 3 or more fields, that of the base type of the final field for 2.
RegisteredConditionName(def, d) ==
    IF Len(d.fields) > 2 THEN "ModelStringKeyConditionInput"
    ELSE "Model" \o DeclaredBase(def, d.fields[Len(d.fields)]) \o "KeyConditionInput"

\* C25: the Context never holds two condition inputs of the same base scalar
\* or of the same name; a @key of one field registers none, a @key whose
\* condition input is already in the Context leaves the registered inputs
\* as they are, and any other @key adds exactly its own.
C25_ConditionInputsRegisteredOnce ==
    /\ [](\A t1 \in conditionInputs, t2 \in conditionInputs :
            (t1.scalar = t2.scalar \/ t1.name = t2.name) => t1 = t2)
    /\ [][ Applies
            => LET d == definition.directives[applied + 1]
               IN  IF Len(d.fields) = 1
                   THEN conditionInputs' = conditionInputs
                   ELSE IF \E t \in conditionInputs : t.name = RegisteredConditionName(definition, d)
                   THEN conditionInputs' = conditionInputs
                   ELSE /\ conditionInputs \subseteq conditionInputs'
                        /\ Cardinality(conditionInputs' \ conditionInputs) = 1
                        /\ \A t \in conditionInputs' \ conditionInputs :
                            t.name = RegisteredConditionName(definition, d)
          ]_vars

\* C25: two keys of two or more fields that register the same condition
\* input were applied, and the Context holds that one input.
C25_Witness ==
    /\ applied = 2
    /\ error = NoError
    /\ Len(definition.directives[1].fields) >= 2
    /\ Len(definition.directives[2].fields) >= 2
    /\ RegisteredConditionName(definition, definition.directives[1])
        = RegisteredConditionName(definition, definition.directives[2])
    /\ Cardinality(conditionInputs) = 1

\* The names of the key condition inputs of the base types of the fields of the type.
KeyConditionNames(def) ==
    { "Model" \o def.fields[i].type.base \o "KeyConditionInput" : i \in 1..Len(def.fields) }

\* C28: every key condition input that is the type of an argument of a field
\* of the Query type is registered in the Context.
C28_ArgumentConditionInputsAreRegistered ==
    \A i \in 1..Len(queryType) : \A k \in 1..Len(queryType[i].arguments) :
        queryType[i].arguments[k].type.base \in KeyConditionNames(definition)
            => \E t \in conditionInputs : t.name = queryType[i].arguments[k].type.base

(***************************************************************************)
(* The frame of the index structures.                                      *)
(***************************************************************************)
\* after is before with one index of the name added at its end.
ExtendedBy(before, after, name) ==
    /\ Len(after) = Len(before) + 1
    /\ SubSeq(after, 1, Len(before)) = before
    /\ after[Len(after)].IndexName = name

\* C29: applying a secondary @key leaves the primary KeySchema of the table
\* and the indexes appended before unchanged and in their order and adds
\* exactly one index, named by the directive, at the end of exactly one of
\* the two lists; applying a primary @key leaves both lists unchanged.
C29_IndexMutationsAreFramed ==
    [][ Applies
        => LET d == definition.directives[applied + 1]
           IN  IF d.name = NoName
               THEN /\ table'.GlobalSecondaryIndexes = table.GlobalSecondaryIndexes
                    /\ table'.LocalSecondaryIndexes = table.LocalSecondaryIndexes
               ELSE /\ table'.KeySchema = table.KeySchema
                    /\ \/ /\ ExtendedBy(table.GlobalSecondaryIndexes, table'.GlobalSecondaryIndexes, d.name)
                          /\ table'.LocalSecondaryIndexes = table.LocalSecondaryIndexes
                       \/ /\ ExtendedBy(table.LocalSecondaryIndexes, table'.LocalSecondaryIndexes, d.name)
                          /\ table'.GlobalSecondaryIndexes = table.GlobalSecondaryIndexes
      ]_vars

\* C29: two secondary keys were applied that both became Global indexes,
\* which the table lists in the order of the directives.
C29_Witness ==
    /\ applied = 2
    /\ error = NoError
    /\ Len(table.GlobalSecondaryIndexes) = 2
    /\ table.GlobalSecondaryIndexes[1].IndexName = definition.directives[1].name
    /\ table.GlobalSecondaryIndexes[2].IndexName = definition.directives[2].name
    /\ table.KeySchema = << HashKey("id") >>

AtomHolds(token, condition, item) ==
    IF token = "#owner = :username"
    THEN FieldOf(item, condition.expressionNames["#owner"])
            = VtlString(condition.expressionValues[":username"])
    ELSE IF token = "attribute_exists(#id)" THEN TRUE
    ELSE LET placeholder == CHOOSE k \in DOMAIN condition.expressionValues :
                                token = "contains(#groupsAttribute, " \o k \o ")"
             attribute == FieldOf(item, condition.expressionNames["#groupsAttribute"])
         IN  \/ attribute.type = "list" /\ condition.expressionValues[placeholder] \in Elements(attribute)
             \/ attribute.type = "string" /\ attribute.text = condition.expressionValues[placeholder]

\* The expression with every comparison and function replaced by its value.
Valuation(condition, item) ==
    [i \in 1..Len(condition.expression) |->
        IF condition.expression[i] \in {"(", ")", "AND", "OR"} THEN condition.expression[i]
        ELSE IF AtomHolds(condition.expression[i], condition, item) THEN "T" ELSE "F"]

NoParse == [ok |-> FALSE, value |-> FALSE, pos |-> 0]

RECURSIVE ParseOr(_, _)
RECURSIVE ParseAnd(_, _)
RECURSIVE ParsePrimary(_, _)

ParsePrimary(tokens, pos) ==
    IF pos > Len(tokens) THEN NoParse
    ELSE IF tokens[pos] \in {"T", "F"} THEN [ok |-> TRUE, value |-> tokens[pos] = "T", pos |-> pos + 1]
    ELSE IF tokens[pos] = "("
    THEN LET inner == ParseOr(tokens, pos + 1)
         IN  IF inner.ok /\ inner.pos <= Len(tokens) /\ tokens[inner.pos] = ")"
             THEN [inner EXCEPT !.pos = @ + 1]
             ELSE NoParse
    ELSE NoParse

ParseAnd(tokens, pos) ==
    LET left == ParsePrimary(tokens, pos)
    IN  IF left.ok /\ left.pos <= Len(tokens) /\ tokens[left.pos] = "AND"
        THEN LET right == ParseAnd(tokens, left.pos + 1)
             IN  IF right.ok THEN [right EXCEPT !.value = left.value /\ @] ELSE NoParse
        ELSE left

ParseOr(tokens, pos) ==
    LET left == ParseAnd(tokens, pos)
    IN  IF left.ok /\ left.pos <= Len(tokens) /\ tokens[left.pos] = "OR"
        THEN LET right == ParseOr(tokens, left.pos + 1)
             IN  IF right.ok THEN [right EXCEPT !.value = left.value \/ @] ELSE NoParse
        ELSE left

\* The write with the condition succeeds on the item.
Satisfied(condition, item) ==
    LET parsed == ParseOr(Valuation(condition, item), 1)
    IN  parsed.ok /\ parsed.pos = Len(condition.expression) + 1 /\ parsed.value

\* The rules whose fragments have been folded into the condition so far.
Folded ==
    { mappingTemplate[i].rule : i \in { j \in 1..Len(mappingTemplate) :
        j < pc /\ mappingTemplate[j].op \in {"ownerCondition", "groupCondition"} } }

OwnerAttributeOf(rule) == IF rule.ownerField # NoField THEN rule.ownerField ELSE DEFAULT_OWNER_FIELD
IdentityFieldOf(rule) == IF rule.identityField # NoField THEN rule.identityField ELSE DEFAULT_IDENTITY_FIELD

\* What the fragment of a rule asks of the item: the owner attribute of the
\* rule is the identity of the caller, or the groups attribute of the rule
\* holds a group of the caller.
FragmentSatisfied(rule) ==
    IF rule.allow = OWNER_AUTH_STRATEGY
    THEN FieldOf(request.result, OwnerAttributeOf(rule)) = FieldOf(request.identity, IdentityFieldOf(rule))
    ELSE dynamicGroupsMatch(request.identity.claims, request.result, rule)

\* The step folds the fragment of its rule in the specified form.
FoldedAsSpecified ==
    LET rule == mappingTemplate[pc].rule
        groups == groupAuthExpression(request.identity.claims)
    IN  /\ authCondition # NoCondition /\ mappingTemplate[pc].op = "ownerCondition" =>
                authCondition'.expression =
                    << "(" >> \o authCondition.expression \o << ")", "AND", "#owner = :username" >>
        /\ authCondition # NoCondition /\ mappingTemplate[pc].op = "groupCondition" =>
                authCondition'.expression = authCondition.expression \o << "AND", "(" >> \o groups \o << ")" >>
        /\ authCondition = NoCondition /\ mappingTemplate[pc].op = "ownerCondition" =>
                authCondition'.expression = << "#owner = :username" >>
        /\ authCondition = NoCondition /\ mappingTemplate[pc].op = "groupCondition" =>
                authCondition'.expression = groups

\* C21: the first fragment initialises the condition, an owner fragment
\* turns C into (C) AND owner = identity, a group fragment turns C into
\* C AND (g1 OR ... OR gn); and before the static group check the
\* condition is satisfied exactly if every folded fragment is, whatever the
\* order of the rules.
C21_ConditionIsConjunctionOfFragments ==
    /\ [][pc' = pc + 1 /\ pc <= Len(mappingTemplate) => FoldedAsSpecified]_vars
    /\ [](authCondition # NoCondition /\ ~Finished =>
            (Satisfied(authCondition, request.result) <=> \A rule \in Folded : FragmentSatisfied(rule)))

\* C22: after the check, a caller in a static group of the rules whose
\* write has a precondition has it widened to succeed on every existing
\* item; a caller in no static group whose write has no precondition is
\* unauthorized; and the flag the check reads is the flag the static group
\* expression sets.
C22_StaticGroupCheckWidensOrTerminates ==
    Finished /\ "staticGroupCheck" \in { mappingTemplate[i].op : i \in 1..Len(mappingTemplate) } =>
        LET matched == staticGroupsMatch(request.identity.claims,
                                         staticAllowedGroups(getStaticGroupRules(authRules)))
        IN  /\ matched /\ authCondition # NoCondition => Satisfied(authCondition, request.result)
            /\ ~matched /\ authCondition = NoCondition => unauthorized
            /\ matched <=> variables["isAuthorized"] = VtlTrue

\* C30: a fragment leaves the placeholders bound before it as they are, and
\* a condition that is satisfied has the item match the own field of every
\* rule folded into it.
C30_FragmentsKeepTheirPlaceholders ==
    /\ [][authCondition # NoCondition /\ authCondition' # NoCondition =>
            /\ \A k \in DOMAIN authCondition.expressionNames :
                    authCondition'.expressionNames[k] = authCondition.expressionNames[k]
            /\ \A k \in DOMAIN authCondition.expressionValues :
                    authCondition'.expressionValues[k] = authCondition.expressionValues[k]]_vars
    /\ [](authCondition # NoCondition /\ ~Finished /\ Satisfied(authCondition, request.result) =>
            \A rule \in Folded : FragmentSatisfied(rule))

====
